---- MODULE Spec2Model ----
(***************************************************************************)
(* Model of the hub/spoke decision engine, the content-version guard, the  *)
(* quality gate / publish path and the circuit breaker of sei_unified.py.  *)
(*                                                                         *)
(* The page registry (table decision_nodes) is a sequence of rows; a row's *)
(* id is its position.  The table enforces no uniqueness of its own: the   *)
(* only dedup is the check-then-insert of the code.  An insert either      *)
(* stores the row and returns it, or raises / returns no row and stores    *)
(* nothing; which one happens is an input of the action.                   *)
(***************************************************************************)
EXTENDS Integers, Sequences, FiniteSets, TLC

VARIABLES nodes, etypes, last, nFailed,
          kwA, kwB, nodesB, etypesB, opc,
          breaker, out, publishing_enabled

vars == <<nodes, etypes, last, nFailed, kwA, kwB, nodesB, etypesB, opc,
          breaker, out, publishing_enabled>>

(***************************************************************************)
(* Bounds                                                                  *)
(***************************************************************************)
MaxNodes == 6
MaxFailures == 1
MaxVersion == 2
MaxBreakerFailures == 4
MaxItems == 2
MaxTextLen == 3
MaxLinks == 7
MaxBodyLen == 3
MaxKeywords == 6
MaxOps == 5

(***************************************************************************)
(* Values                                                                  *)
(***************************************************************************)
NULL == "<null>"
NoId == 0
NullInt == -1

EquipmentNames == {"excavator", "crane"}
SpokeTypes == {"hub", "financing", "for-sale", "rental", "brand", "modifier"}
\* values the reasoning backend can put in an optional field of its reply
RawGeo == {NULL, "", "none", "texas"}
RawModifier == {NULL, "", "None", "used"}
RawBrand == {NULL, "none", "komatsu"}
InsertSites == {"etype", "hub", "financing", "for-sale", "rental", "adhoc"}

\* Python truthiness of an optional string
Truthy(x) == x # NULL /\ x # ""

\* str.lower() on the vocabulary of the model
Lower(w) == IF w = "None" THEN "none" ELSE w

\* str.replace('-', ' ') followed by split(): the words of a value
Words(w) == IF w = "for-sale" THEN <<"for", "sale">> ELSE <<w>>

generate_url_slug(words) == [i \in 1..Len(words) |-> Lower(words[i])]

\* classify_keyword: normalisation of an optional field of the reply
NormalizeOptional(x) == IF Truthy(x) /\ Lower(x) \in {"none", ""} THEN NULL ELSE x

ClassifiedKeyword(e, s, g, m, b) ==
    [equipment_type |-> e,
     spoke_type     |-> s,
     page_category  |-> IF s = "hub" THEN "hub" ELSE "spoke",
     geo            |-> NormalizeOptional(g),
     modifier       |-> NormalizeOptional(m),
     brand          |-> NormalizeOptional(b)]

Classifications ==
    {ClassifiedKeyword(e, s, g, m, b) :
        e \in EquipmentNames, s \in SpokeTypes, g \in RawGeo,
        m \in RawModifier, b \in RawBrand}

\* the keywords fed to long serial runs: every equipment type and geo value,
\* one default and one non-default spoke type, no modifier
SerialSpokeTypes == {"hub", "financing", "brand"}

SerialInputs ==
    {c \in Classifications : c.spoke_type \in SerialSpokeTypes /\ c.modifier = NULL}

(***************************************************************************)
(* Page registry                                                           *)
(***************************************************************************)
NoContent == <<>>

NewNode(et, cat, st, geo, mod, brand, parent, slug) ==
    [equipment_type_id |-> et,
     page_category     |-> cat,
     spoke_type        |-> st,
     geo               |-> geo,
     modifier          |-> mod,
     brand_id          |-> brand,
     parent_hub_id     |-> parent,
     url_slug          |-> slug,
     spoke_grid        |-> <<>>,
     status            |-> "discovery",
     generated_content |-> NoContent,
     word_count        |-> NullInt,
     content_version   |-> NullInt,
     publish_gate_status |-> NULL,
     publish_gate_reason |-> {},
     short_description |-> NULL,
     hero_image_url    |-> NULL,
     webflow_item_id   |-> NULL]

Ids(reg) == 1..Len(reg)

Min(S) == CHOOSE x \in S : \A y \in S : x <= y

\* select id ... eq(equipment_type_id).eq(page_category,'hub'); data[0] or None
HubOf(reg, et) ==
    IF \E i \in Ids(reg) : reg[i].equipment_type_id = et /\ reg[i].page_category = "hub"
    THEN Min({i \in Ids(reg) : reg[i].equipment_type_id = et
                               /\ reg[i].page_category = "hub"})
    ELSE NoId

\* the query of check_page_exists applied to one row
PageMatches(n, et, st, geo, mod, brand) ==
    /\ n.equipment_type_id = et
    /\ IF st = "hub" THEN n.page_category = "hub" ELSE n.spoke_type = st
    /\ IF Truthy(geo) THEN n.geo = geo ELSE n.geo = NULL
    /\ IF Truthy(mod) THEN n.modifier = mod ELSE n.modifier = NULL
    /\ (Truthy(brand) => n.brand_id = brand)

check_page_exists(reg, et, st, geo, mod, brand) ==
    IF \E i \in Ids(reg) : PageMatches(reg[i], et, st, geo, mod, brand)
    THEN Min({i \in Ids(reg) : PageMatches(reg[i], et, st, geo, mod, brand)})
    ELSE NoId

\* returns the registry after the call and the id of the new row (NoId: none)
create_spoke_page(reg, et, name, st, geo, mod, brand, parent, ok) ==
    LET p    == IF parent # NoId THEN parent ELSE HubOf(reg, et)
        kind == IF Truthy(st) /\ st # "financing" THEN Words(st) ELSE <<"financing">>
        g    == IF Truthy(geo) THEN <<geo>> ELSE <<>>
        m    == IF Truthy(mod) THEN <<mod>> ELSE <<>>
        slug == generate_url_slug(<<name>> \o kind \o g \o m)
        row  == NewNode(et, "spoke", st, geo, mod, brand, p, slug)
    IN IF ok THEN [nodes |-> Append(reg, row), id |-> Len(reg) + 1]
             ELSE [nodes |-> reg, id |-> NoId]

update_hub_spoke_grid(reg, hub, et) ==
    LET spokes == SelectSeq([i \in Ids(reg) |-> i],
                     LAMBDA i : reg[i].equipment_type_id = et
                                /\ reg[i].page_category = "spoke")
        grid   == [k \in 1..Len(spokes) |-> reg[spokes[k]].url_slug]
    IN [reg EXCEPT ![hub].spoke_grid = grid]

default_spokes == <<"financing", "for-sale", "rental">>

\* F applied to the value of x (x is evaluated once)
Then(x, F(_)) == CHOOSE y \in {F(v) : v \in {x}} : TRUE

\* one iteration of the loop over default_spokes;
\* acc = [nodes, created, failed (number of inserts that stored nothing)]
DefaultSpokeStep(acc, et, name, st, hub, fails) ==
    IF check_page_exists(acc.nodes, et, st, NULL, NULL, NULL) # NoId
    THEN acc
    ELSE Then(create_spoke_page(acc.nodes, et, name, st, NULL, NULL, NULL,
                                hub, st \notin fails),
              LAMBDA r :
                 [nodes |-> r.nodes,
                  created |-> acc.created + (IF r.id # NoId THEN 1 ELSE 0),
                  failed |-> acc.failed + (IF r.id # NoId THEN 0 ELSE 1)])

\* the hub part of create_equipment_cluster: [nodes, etypes, hub, created, failed]
ClusterHubStep(reg, ets, et, name, fails) ==
    Then(HubOf(reg, et), LAMBDA found :
        IF found # NoId
        THEN [nodes |-> reg, etypes |-> ets, hub |-> found,
              created |-> 0, failed |-> 0]
        ELSE IF "hub" \in fails
        THEN [nodes |-> reg, etypes |-> ets, hub |-> NoId,
              created |-> 0, failed |-> 1]
        ELSE [nodes |-> Append(reg, NewNode(et, "hub", NULL, NULL, NULL, NULL, NoId,
                                            generate_url_slug(<<name>>))),
              etypes |-> [ets EXCEPT ![et] = Len(reg) + 1],
              hub |-> Len(reg) + 1,
              created |-> 1, failed |-> 0])

create_equipment_cluster(reg, ets, et, name, fails) ==
    Then(ClusterHubStep(reg, ets, et, name, fails), LAMBDA h :
    Then(DefaultSpokeStep([nodes |-> h.nodes, created |-> h.created, failed |-> h.failed],
                          et, name, default_spokes[1], h.hub, fails), LAMBDA a1 :
    Then(DefaultSpokeStep(a1, et, name, default_spokes[2], h.hub, fails), LAMBDA a2 :
    Then(DefaultSpokeStep(a2, et, name, default_spokes[3], h.hub, fails), LAMBDA a3 :
        [nodes |-> IF h.hub # NoId THEN update_hub_spoke_grid(a3.nodes, h.hub, et)
                   ELSE a3.nodes,
         etypes |-> h.etypes,
         pages_created |-> a3.created,
         failed |-> a3.failed]))))

\* equipment_types is keyed by slug; the row's id is that slug
get_or_create_equipment_type(ets, name, ok) ==
    Then(generate_url_slug(<<name>>)[1], LAMBDA slug :
        IF slug \in DOMAIN ets THEN [etypes |-> ets, id |-> slug]
        ELSE IF ok THEN [etypes |-> [s \in DOMAIN ets \cup {slug} |->
                                        IF s = slug THEN NoId ELSE ets[s]],
                         id |-> slug]
        ELSE [etypes |-> ets, id |-> NULL])

\* DecideSpoke counting the keyword's spoke as created whether or not the
\* insert stored it
DecideSpoke_counts_attempts(s, et, c, fails) ==
    IF c.spoke_type = "hub"
    THEN [nodes |-> s.nodes, etypes |-> s.etypes, pages_created |-> s.pages_created,
          pages_skipped |-> 0, error |-> FALSE, failed |-> s.failed]
    ELSE IF check_page_exists(s.nodes, et, c.spoke_type, c.geo, c.modifier, NULL) # NoId
    THEN [nodes |-> s.nodes, etypes |-> s.etypes, pages_created |-> s.pages_created,
          pages_skipped |-> 1, error |-> FALSE, failed |-> s.failed]
    ELSE Then(create_spoke_page(s.nodes, et, c.equipment_type, c.spoke_type,
                                c.geo, c.modifier, NULL, NoId, "adhoc" \notin fails),
              LAMBDA sp :
                 [nodes |-> sp.nodes, etypes |-> s.etypes,
                  pages_created |-> s.pages_created + 1,
                  pages_skipped |-> 0, error |-> FALSE,
                  failed |-> s.failed + (IF sp.id # NoId THEN 0 ELSE 1)])

\* decide_and_queue after the equipment type is resolved to et and the
\* cluster step is done: s = [nodes, etypes, pages_created, failed]
DecideSpoke(s, et, c, fails) ==
    IF c.spoke_type = "hub"
    THEN [nodes |-> s.nodes, etypes |-> s.etypes, pages_created |-> s.pages_created,
          pages_skipped |-> 0, error |-> FALSE, failed |-> s.failed]
    ELSE IF check_page_exists(s.nodes, et, c.spoke_type, c.geo, c.modifier, NULL) # NoId
    THEN [nodes |-> s.nodes, etypes |-> s.etypes, pages_created |-> s.pages_created,
          pages_skipped |-> 1, error |-> FALSE, failed |-> s.failed]
    ELSE Then(create_spoke_page(s.nodes, et, c.equipment_type, c.spoke_type,
                                c.geo, c.modifier, NULL, NoId, "adhoc" \notin fails),
              LAMBDA sp :
                 [nodes |-> sp.nodes, etypes |-> s.etypes,
                  pages_created |-> s.pages_created + (IF sp.id # NoId THEN 1 ELSE 0),
                  pages_skipped |-> 0, error |-> FALSE,
                  failed |-> s.failed + (IF sp.id # NoId THEN 0 ELSE 1)])

decide_and_queue(reg, ets, c, fails) ==
    Then(get_or_create_equipment_type(ets, c.equipment_type, "etype" \notin fails),
         LAMBDA t :
            IF t.id = NULL
            THEN [nodes |-> reg, etypes |-> t.etypes, pages_created |-> 0,
                  pages_skipped |-> 0, error |-> TRUE, failed |-> 1]
            ELSE IF check_page_exists(reg, t.id, "hub", NULL, NULL, NULL) # NoId
            THEN DecideSpoke([nodes |-> reg, etypes |-> t.etypes,
                              pages_created |-> 0, failed |-> 0], t.id, c, fails)
            ELSE Then(create_equipment_cluster(reg, t.etypes, t.id, c.equipment_type, fails),
                      LAMBDA cl : DecideSpoke(cl, t.id, c, fails)))

(***************************************************************************)
(* Circuit breaker (one object per process)                                *)
(***************************************************************************)
CIRCUIT_BREAKER_THRESHOLD == 3

CircuitBreaker == [failures |-> 0, is_open |-> FALSE]

\* record_success closing the breaker but keeping the counter
record_success_keep(b) == [failures |-> b.failures, is_open |-> FALSE]

record_success(b) == [failures |-> 0, is_open |-> FALSE]

\* record_failure opening the breaker one failure late
record_failure_late(b) ==
    [failures |-> b.failures + 1,
     is_open  |-> b.is_open \/ b.failures + 1 > CIRCUIT_BREAKER_THRESHOLD]

record_failure(b) ==
    [failures |-> b.failures + 1,
     is_open  |-> b.is_open \/ b.failures + 1 >= CIRCUIT_BREAKER_THRESHOLD]

can_proceed(b) == ~b.is_open

reset(b) == [failures |-> 0, is_open |-> FALSE]

(***************************************************************************)
(* Content versioning and quality gate                                     *)
(*                                                                         *)
(* A generated document is [words, faq, compliant, links]: its word count, *)
(* the length of its faq list, whether check_brand_compliance finds no     *)
(* banned phrase in it, and whether links were injected into its body.     *)
(***************************************************************************)
min_words == 800
min_sources == 2
min_faqs == 4

\* links: whether generate_internal_links has injected links into the body
Document(w, f, c) == [words |-> w, faq |-> f, compliant |-> c, links |-> FALSE]

\* the documents a generation run may return
Documents ==
    {Document(1000, 4, TRUE), Document(920, 4, TRUE), Document(900, 4, TRUE),
     Document(500, 4, TRUE), Document(1000, 3, TRUE), Document(1000, 4, FALSE)}

SourceCounts == {1, 2}

\* GateFailures asking for one source only
GateFailures_one_source(content, sources) ==
    (IF content.words < min_words THEN {"word_count"} ELSE {}) \cup
    (IF sources < min_sources - 1 THEN {"sources"} ELSE {}) \cup
    (IF content.faq < min_faqs THEN {"faqs"} ELSE {}) \cup
    (IF ~content.compliant THEN {"brand_violations"} ELSE {})

\* GateFailures with the faq threshold off by one
GateFailures_faq_off_by_one(content, sources) ==
    (IF content.words < min_words THEN {"word_count"} ELSE {}) \cup
    (IF sources < min_sources THEN {"sources"} ELSE {}) \cup
    (IF content.faq < min_faqs - 1 THEN {"faqs"} ELSE {}) \cup
    (IF ~content.compliant THEN {"brand_violations"} ELSE {})

\* the list failures of validate_quality_gates, each reason by its name
GateFailures(content, sources) ==
    (IF content.words < min_words THEN {"word_count"} ELSE {}) \cup
    (IF sources < min_sources THEN {"sources"} ELSE {}) \cup
    (IF content.faq < min_faqs THEN {"faqs"} ELSE {}) \cup
    (IF ~content.compliant THEN {"brand_violations"} ELSE {})

\* QualityGateResult.passed
validate_quality_gates(content, sources) == GateFailures(content, sources) = {}

\* word_count >= current_wc * 0.9
GuardAccepts(word_count, current_wc) == 10 * word_count >= 9 * current_wc

\* the except branch of update_content_safe: content and word_count only
FallbackStore(row, content, word_count) ==
    [row EXCEPT !.generated_content = <<content>>, !.word_count = word_count]

\* update_content_safe without the comparison of the word counts
update_content_unguarded(row, content, word_count, read) ==
    IF read = "error" \/ row.word_count = NullInt \/ row.content_version = NullInt
    THEN [row |-> FallbackStore(row, content, word_count), stored |-> TRUE]
    ELSE [row |-> [row EXCEPT !.generated_content = <<content>>,
                              !.word_count = word_count,
                              !.content_version = row.content_version + 1],
          stored |-> TRUE]

\* returns [row, stored]; read = "error" when reading the current version raises
update_content_safe(row, content, word_count, read) ==
    IF read = "error" \/ row.word_count = NullInt
    THEN [row |-> FallbackStore(row, content, word_count), stored |-> TRUE]
    ELSE IF GuardAccepts(word_count, row.word_count)
    THEN IF row.content_version = NullInt
         THEN [row |-> FallbackStore(row, content, word_count), stored |-> TRUE]
         ELSE [row |-> [row EXCEPT !.generated_content = <<content>>,
                                   !.word_count = word_count,
                                   !.content_version = row.content_version + 1],
               stored |-> TRUE]
    ELSE [row |-> row, stored |-> FALSE]

\* the checks of generate_content_for_node before generation
GenerationValid(row) ==
    /\ Truthy(row.equipment_type_id)
    /\ Truthy(row.page_category)
    /\ (row.page_category = "spoke" =>
            Truthy(row.spoke_type) /\ row.parent_hub_id # NoId)
    /\ row.url_slug # <<>>

\* g = [llm, content, sources, read, short]; llm = "fail" stands for an
\* exhausted budget, an unparsable answer or an exception of the generation
\* call; short is the short_description of the generated document, NULL
\* when the generator omitted it
\* returns [row, success, stored]
\* the gate columns written for a document and its sources; the column
\* publish_gate_reason holds the set of reasons, empty for NULL
GateColumns(row, content, sources) ==
    IF validate_quality_gates(content, sources)
    THEN [row EXCEPT !.status = "ready_to_publish",
                     !.publish_gate_status = "passed",
                     !.publish_gate_reason = {}]
    ELSE [row EXCEPT !.status = "blocked_quality",
                     !.publish_gate_status = "blocked",
                     !.publish_gate_reason = GateFailures(content, sources)]

\* the short description without the fill-in from the template
ShortDescription_no_autofill(row, g) ==
    IF Truthy(g.short) THEN g.short ELSE ""

\* content['short_description'] after the fill-in keyed by the page role
ShortDescription(row, g) ==
    IF Truthy(g.short) THEN g.short
    ELSE IF row.page_category = "hub" THEN "Compare financing, rental & buying options"
    ELSE IF row.spoke_type = "financing" THEN "Get flexible financing options"
    ELSE IF row.spoke_type = "rental" THEN "Rent quality equipment for your project"
    ELSE IF row.spoke_type = "for-sale" THEN "Find equipment for sale near you"
    ELSE "Explore options"

\* generate_content_for_node writing the gate columns only with the content
generate_content_gate_dropped(row, g) ==
    IF ~GenerationValid(row) \/ g.llm = "fail"
    THEN [row |-> row, success |-> FALSE, stored |-> FALSE]
    ELSE Then(update_content_safe(row, g.content, g.content.words, g.read), LAMBDA u :
        [row |-> IF u.stored
                 THEN [GateColumns(u.row, g.content, g.sources)
                          EXCEPT !.short_description = ShortDescription(row, g)]
                 ELSE [u.row EXCEPT !.short_description = ShortDescription(row, g)],
         success |-> TRUE,
         stored |-> u.stored])

generate_content_for_node(row, g) ==
    IF ~GenerationValid(row) \/ g.llm = "fail"
    THEN [row |-> row, success |-> FALSE, stored |-> FALSE]
    ELSE Then(update_content_safe(row, g.content, g.content.words, g.read), LAMBDA u :
        [row |-> [GateColumns(u.row, g.content, g.sources)
                     EXCEPT !.short_description = ShortDescription(row, g)],
         success |-> TRUE,
         stored |-> u.stored])

GenerationInputs ==
    [llm : {"ok"}, content : Documents, sources : SourceCounts, read : {"ok", "error"},
     short : {NULL, "generated"}]
    \cup {[llm |-> "fail", content |-> Document(1000, 4, TRUE), sources |-> 2,
           read |-> "ok", short |-> NULL]}

\* returns the row; ok = FALSE when image generation is disabled or fails
generate_hero_image(row, ok) ==
    IF ok THEN [row EXCEPT !.hero_image_url = "set"] ELSE row

\* generate_internal_links storing the rewritten document as a new version
generate_internal_links_versioned(row) ==
    IF row.generated_content = NoContent THEN row
    ELSE [row EXCEPT !.generated_content = <<[row.generated_content[1] EXCEPT !.links = TRUE]>>,
                     !.content_version = IF @ = NullInt THEN @ ELSE @ + 1]

\* generate_internal_links also writing the parent hub
generate_internal_links_reparent(row) ==
    IF row.generated_content = NoContent THEN [row EXCEPT !.parent_hub_id = NoId]
    ELSE [row EXCEPT !.generated_content = <<[row.generated_content[1] EXCEPT !.links = TRUE]>>,
                     !.parent_hub_id = NoId]

\* rewrites the stored document with the links injected
generate_internal_links(row) ==
    IF row.generated_content = NoContent THEN row
    ELSE [row EXCEPT !.generated_content = <<[row.generated_content[1] EXCEPT !.links = TRUE]>>]

(***************************************************************************)
(* Publisher                                                               *)
(***************************************************************************)
\* the checks of publish_to_webflow without the one of the hero image
PublishValid_no_hero(row) ==
    /\ row.generated_content # NoContent
    /\ Truthy(row.short_description)
    /\ Truthy(row.page_category)
    /\ (row.page_category = "spoke" => Truthy(row.spoke_type))

\* the checks of publish_to_webflow on the row before the CMS request
PublishValid(row) ==
    /\ row.generated_content # NoContent
    /\ Truthy(row.hero_image_url)
    /\ Truthy(row.short_description)
    /\ Truthy(row.page_category)
    /\ (row.page_category = "spoke" => Truthy(row.spoke_type))

\* outcomes of the CMS request: a 2xx answer, a non-2xx answer, an exception
\* of the request, and a 2xx answer followed by a failing registry update
CmsOutcomes == {"2xx", "http_error", "exception", "2xx_db_error"}

\* check_kill_switch refusing when the flag cannot be read
check_kill_switch_fail_closed(enabled, read) == read = "ok" /\ enabled

\* available: the answer of the procedure check_budget_available ("True",
\* "False" or NULL); read = "error" when calling it raises
check_budget(available, read) == ~(read = "ok" /\ available = "False")

\* enabled: the value of publishing_control.publishing_enabled;
\* read = "error" when reading it raises
check_kill_switch(enabled, read) == ~(read = "ok" /\ ~enabled)

PublishInputs == [ks_read : {"ok", "error"}, cms : CmsOutcomes]

\* the items publish_to_webflow finds missing on the row
ValidationErrors(row) ==
    {e \in {"No generated content", "No hero image", "No short description",
            "Missing page_category", "Missing spoke_type"} :
        \/ e = "No generated content" /\ row.generated_content = NoContent
        \/ e = "No hero image" /\ ~Truthy(row.hero_image_url)
        \/ e = "No short description" /\ ~Truthy(row.short_description)
        \/ e = "Missing page_category" /\ ~Truthy(row.page_category)
        \/ e = "Missing spoke_type" /\ row.page_category = "spoke"
                                     /\ ~Truthy(row.spoke_type)}

\* the record returned when no CMS request is issued
NotPublished(row, b, error) ==
    [row |-> row, breaker |-> b, success |-> FALSE, error |-> error,
     requests |-> 0, failed_call |-> FALSE, at_request |-> NULL,
     method |-> NULL, created |-> 0, validation_errors |-> {}, slept |-> FALSE]

\* publish_to_webflow marking the page published without storing the item id
publish_to_webflow_no_stamp(row, b, ks, p) ==
    IF ~check_kill_switch(ks, p.ks_read) THEN NotPublished(row, b, "Kill switch active")
    ELSE IF ~can_proceed(b) THEN NotPublished(row, b, "Circuit breaker open")
    ELSE IF ~PublishValid(row)
    THEN [NotPublished(row, b, "Publish validation failed")
             EXCEPT !.validation_errors = ValidationErrors(row)]
    ELSE Then(IF Truthy(row.webflow_item_id) THEN "PATCH" ELSE "POST", LAMBDA method :
        IF p.cms = "2xx"
        THEN [row |-> [row EXCEPT !.status = "published"],
              breaker |-> record_success(b), success |-> TRUE, error |-> NULL,
              requests |-> 1, failed_call |-> FALSE, at_request |-> row.status,
              method |-> method, created |-> IF method = "POST" THEN 1 ELSE 0,
              validation_errors |-> {}, slept |-> TRUE]
        ELSE [row |-> row, breaker |-> record_failure(b), success |-> FALSE,
              error |-> p.cms, requests |-> 1, failed_call |-> p.cms # "2xx_db_error",
              at_request |-> row.status, method |-> method,
              created |-> IF method = "POST" /\ p.cms = "2xx_db_error" THEN 1 ELSE 0,
              validation_errors |-> {}, slept |-> p.cms = "http_error"])

\* ks = publishing_enabled, p = [ks_read, cms]
\* returns [row, breaker, success, error, requests (CMS requests issued),
\*          failed_call (the request got no 2xx answer),
\*          at_request (the row's status when the request was issued),
\*          method (POST creates an item, PATCH updates the stored one),
\*          created (items the CMS created), validation_errors,
\*          slept (time.sleep(RATE_LIMIT_DELAY) was reached)]
publish_to_webflow(row, b, ks, p) ==
    IF ~check_kill_switch(ks, p.ks_read) THEN NotPublished(row, b, "Kill switch active")
    ELSE IF ~can_proceed(b) THEN NotPublished(row, b, "Circuit breaker open")
    ELSE IF ~PublishValid(row)
    THEN [NotPublished(row, b, "Publish validation failed")
             EXCEPT !.validation_errors = ValidationErrors(row)]
    ELSE Then(IF Truthy(row.webflow_item_id) THEN "PATCH" ELSE "POST", LAMBDA method :
        IF p.cms = "2xx"
        THEN [row |-> [row EXCEPT !.webflow_item_id = "set", !.status = "published"],
              breaker |-> record_success(b), success |-> TRUE, error |-> NULL,
              requests |-> 1, failed_call |-> FALSE, at_request |-> row.status,
              method |-> method, created |-> IF method = "POST" THEN 1 ELSE 0,
              validation_errors |-> {}, slept |-> TRUE]
        ELSE [row |-> row, breaker |-> record_failure(b), success |-> FALSE,
              error |-> p.cms, requests |-> 1, failed_call |-> p.cms # "2xx_db_error",
              at_request |-> row.status, method |-> method,
              created |-> IF method = "POST" /\ p.cms = "2xx_db_error" THEN 1 ELSE 0,
              validation_errors |-> {}, slept |-> p.cms = "http_error"])

\* the loop body of process_keyword_full for one page in status discovery
\* returns the record of publish_to_webflow
ProcessPageBody(row, b, ks, g, img, p) ==
    Then(generate_content_for_node(row, g), LAMBDA c :
        IF ~c.success
        THEN NotPublished(row, b, "Generation failed")
        ELSE publish_to_webflow(
                 generate_internal_links(generate_hero_image(c.row, img)), b, ks, p))

\* the loop body of refresh_stale_content for one stale published page
RefreshPageBody(row, b, ks, g, p) ==
    Then(generate_content_for_node(row, g), LAMBDA c :
        IF ~c.success
        THEN NotPublished(row, b, "Generation failed")
        ELSE publish_to_webflow(generate_internal_links(c.row), b, ks, p))

(***************************************************************************)
(* Decision engine: serial invocations against the shared registry         *)
(***************************************************************************)
NoEtypes == [s \in {} |-> NoId]

\* result of the last invocation; added = rows the invocation put in the registry
\* what the last publisher / pipeline step did: the CMS requests it issued,
\* the status the page had when they were issued, the number of consecutive
\* failed CMS requests up to now, and the page's word_count before the step;
\* fails = consecutive publish calls that issued a request and failed,
\* failures_before = the breaker's counter before the step, items = the items
\* the CMS has created for the page, keywords_processed = of run_autopilot
NoOut == [op |-> "none", id |-> NoId, success |-> FALSE, error |-> NULL,
          requests |-> 0, at_request |-> NULL, streak |-> 0, before |-> NullInt,
          fails |-> 0, failures_before |-> 0, method |-> NULL, items |-> 0,
          validation_errors |-> {}, slept |-> FALSE, keywords_processed |-> 0]

NoOp == [op |-> "none", added |-> 0, pages_created |-> 0, pages_skipped |-> 0,
         error |-> FALSE]

\* fails: the insert sites that store nothing in this call; every site named
\* in fails is one the call reaches (r.failed counts the inserts that failed)
FailSets == {f \in SUBSET InsertSites : Cardinality(f) <= MaxFailures}

DecideStep(c, fails) ==
    \E r \in {decide_and_queue(nodes, etypes, c, fails)} :
       /\ nFailed + Cardinality(fails) <= MaxFailures
       /\ r.failed = Cardinality(fails)
       /\ Len(r.nodes) <= MaxNodes
       /\ nodes' = r.nodes
       /\ etypes' = r.etypes
       /\ nFailed' = nFailed + r.failed
       /\ last' = [op |-> "decide",
                   added |-> Len(r.nodes) - Len(nodes),
                   pages_created |-> r.pages_created,
                   pages_skipped |-> r.pages_skipped,
                   error |-> r.error]

InitDecide ==
    /\ nodes = <<>>
    /\ etypes = NoEtypes
    /\ last = NoOp
    /\ nFailed = 0
    /\ kwA = NULL /\ kwB = NULL /\ nodesB = <<>> /\ etypesB = NoEtypes
    /\ opc = "idle"
    /\ breaker = CircuitBreaker
    /\ out = NoOut
    /\ publishing_enabled = TRUE

Decide(c, fails) ==
    /\ DecideStep(c, fails)
    /\ UNCHANGED <<kwA, kwB, nodesB, etypesB, opc, breaker, out, publishing_enabled>>

\* CLI command 'cluster <equipment>'
ClusterCommand(reg, ets, name, fails) ==
    Then(get_or_create_equipment_type(ets, name, "etype" \notin fails), LAMBDA t :
        IF t.id = NULL
        THEN [nodes |-> reg, etypes |-> t.etypes, pages_created |-> 0, failed |-> 1]
        ELSE create_equipment_cluster(reg, t.etypes, t.id, name, fails))

Cluster(name, fails) ==
    \E r \in {ClusterCommand(nodes, etypes, name, fails)} :
       /\ nFailed + Cardinality(fails) <= MaxFailures
       /\ r.failed = Cardinality(fails)
       /\ Len(r.nodes) <= MaxNodes
       /\ nodes' = r.nodes
       /\ etypes' = r.etypes
       /\ nFailed' = nFailed + r.failed
       /\ last' = [NoOp EXCEPT !.op = "cluster",
                               !.added = Len(r.nodes) - Len(nodes),
                               !.pages_created = r.pages_created]
       /\ UNCHANGED <<kwA, kwB, nodesB, etypesB, opc, breaker, out, publishing_enabled>>

NextDecide ==
    \/ \E c \in SerialInputs, f \in FailSets : Decide(c, f)
    \/ \E n \in EquipmentNames, f \in FailSets : Cluster(n, f)

SpecDecide == InitDecide /\ [][NextDecide]_vars

(***************************************************************************)
(* Decisions on keywords whose discriminator is read as geo by one reply   *)
(* of the reasoning backend and as modifier by another                     *)
(***************************************************************************)
SlugInputs ==
    {ClassifiedKeyword(e, s, d[1], d[2], NULL) :
        e \in EquipmentNames, s \in {"hub", "financing"},
        d \in {<<NULL, NULL>>, <<"texas", NULL>>, <<NULL, "texas">>}}

NextSlug ==
    \/ \E c \in SlugInputs, f \in FailSets : Decide(c, f)
    \/ \E n \in EquipmentNames, f \in FailSets : Cluster(n, f)

SpecSlug == InitDecide /\ [][NextSlug]_vars

(***************************************************************************)
(* Repeated invocation of decide_and_queue with one classification         *)
(***************************************************************************)
HubKeyword(e) == ClassifiedKeyword(e, "hub", NULL, NULL, NULL)

\* registries the program reaches before the runs below start: the empty
\* one, and the one holding the complete cluster of one equipment type
StartRegistries ==
    {[nodes |-> <<>>, etypes |-> NoEtypes]} \cup
    {[nodes |-> r.nodes, etypes |-> r.etypes] :
        r \in {decide_and_queue(<<>>, NoEtypes, HubKeyword("excavator"), {})}}

InitRepeat ==
    /\ kwA \in Classifications
    /\ \E s \in StartRegistries : nodes = s.nodes /\ etypes = s.etypes
    /\ last = NoOp
    /\ nFailed = 0
    /\ kwB = NULL /\ nodesB = <<>> /\ etypesB = NoEtypes
    /\ opc = "idle"
    /\ breaker = CircuitBreaker
    /\ out = NoOut
    /\ publishing_enabled = TRUE

RepeatDecide(fails) ==
    /\ DecideStep(kwA, fails)
    /\ opc' = IF opc = "idle" THEN "first" ELSE "repeat"
    /\ UNCHANGED <<kwA, kwB, nodesB, etypesB, breaker, out, publishing_enabled>>

NextRepeat == \E f \in FailSets : RepeatDecide(f)

SpecRepeat == InitRepeat /\ [][NextRepeat]_vars

(***************************************************************************)
(* Two keywords processed in both orders from one starting registry; every *)
(* insert stores its row, so the two runs differ in the order only         *)
(***************************************************************************)
OrderInputs == {c \in Classifications : c.brand = NULL}

InitOrder ==
    /\ kwA \in OrderInputs
    /\ kwB \in OrderInputs
    /\ \E s \in StartRegistries :
          /\ nodes = s.nodes /\ etypes = s.etypes
          /\ nodesB = s.nodes /\ etypesB = s.etypes
    /\ last = NoOp
    /\ nFailed = 0
    /\ opc = "idle"
    /\ breaker = CircuitBreaker
    /\ out = NoOut
    /\ publishing_enabled = TRUE

\* run 1 processes kwA while run 2 processes kwB
OrderFirst ==
    \E r1 \in {decide_and_queue(nodes, etypes, kwA, {})},
       r2 \in {decide_and_queue(nodesB, etypesB, kwB, {})} :
       /\ opc = "idle"
       /\ nodes' = r1.nodes /\ etypes' = r1.etypes
       /\ nodesB' = r2.nodes /\ etypesB' = r2.etypes
       /\ opc' = "half"
       /\ UNCHANGED <<last, nFailed, kwA, kwB, breaker, out, publishing_enabled>>

\* run 1 processes kwB while run 2 processes kwA
OrderSecond ==
    \E r1 \in {decide_and_queue(nodes, etypes, kwB, {})},
       r2 \in {decide_and_queue(nodesB, etypesB, kwA, {})} :
       /\ opc = "half"
       /\ nodes' = r1.nodes /\ etypes' = r1.etypes
       /\ nodesB' = r2.nodes /\ etypesB' = r2.etypes
       /\ opc' = "done"
       /\ UNCHANGED <<last, nFailed, kwA, kwB, breaker, out, publishing_enabled>>

NextOrder == OrderFirst \/ OrderSecond

SpecOrder == InitOrder /\ [][NextOrder]_vars

(***************************************************************************)
(* Two invocations of decide_and_queue in a row, each with any keyword and *)
(* any failing insert; kwA is the keyword of the last invocation           *)
(***************************************************************************)
AccountInputs ==
    SerialInputs \cup
    {c \in Classifications : c.spoke_type = "financing" /\ c.brand = NULL}

InitAccount ==
    /\ \E s \in StartRegistries : nodes = s.nodes /\ etypes = s.etypes
    /\ kwA = HubKeyword("excavator")
    /\ last = NoOp
    /\ nFailed = 0
    /\ kwB = NULL /\ nodesB = <<>> /\ etypesB = NoEtypes
    /\ opc = "idle"
    /\ breaker = CircuitBreaker
    /\ out = NoOut
    /\ publishing_enabled = TRUE

AccountFirst(c, fails) ==
    /\ opc = "idle"
    /\ DecideStep(c, fails)
    /\ kwA' = c
    /\ opc' = "first"
    /\ UNCHANGED <<kwB, nodesB, etypesB, breaker, out, publishing_enabled>>

AccountSecond(c, fails) ==
    /\ opc = "first"
    /\ DecideStep(c, fails)
    /\ kwA' = c
    /\ opc' = "second"
    /\ UNCHANGED <<kwB, nodesB, etypesB, breaker, out, publishing_enabled>>

NextAccount ==
    \/ \E c \in AccountInputs, f \in FailSets : AccountFirst(c, f)
    \/ \E c \in AccountInputs, f \in FailSets : AccountSecond(c, f)

SpecAccount == InitAccount /\ [][NextAccount]_vars

(***************************************************************************)
(* The quality gate applied to one document                                *)
(***************************************************************************)
GateInputs ==
    [content : {[Document(1000, 4, TRUE) EXCEPT !.words = w, !.faq = f, !.compliant = c] :
                   w \in {0, 799, 800, 801, 1000}, f \in {0, 3, 4, 5}, c \in BOOLEAN},
     sources : {0, 1, 2, 3}]

InitGate ==
    /\ kwA \in GateInputs
    /\ kwB = NULL
    /\ opc = "gate"
    /\ nodes = <<>> /\ etypes = NoEtypes /\ nodesB = <<>> /\ etypesB = NoEtypes
    /\ last = NoOp
    /\ nFailed = 0
    /\ breaker = CircuitBreaker
    /\ out = NoOut
    /\ publishing_enabled = TRUE

\* validate_quality_gates(content, sources) -> QualityGateResult
RunQualityGate ==
    /\ opc = "gate"
    /\ kwB' = [passed |-> validate_quality_gates(kwA.content, kwA.sources),
               failures |-> GateFailures(kwA.content, kwA.sources)]
    /\ opc' = "gate_done"
    /\ UNCHANGED <<nodes, etypes, last, nFailed, kwA, nodesB, etypesB, breaker, out,
                   publishing_enabled>>

NextGate == RunQualityGate

SpecGate == InitGate /\ [][NextGate]_vars

(***************************************************************************)
(* Brand sanitization of one text                                          *)
(*                                                                         *)
(* A text is a sequence of words separated by single spaces; a word is     *)
(* [w, c]: its lower-case spelling and its letter case ("lower" = our,     *)
(* "title" = Our, "upper" = OUR).  str.replace and the `in` test of Python *)
(* compare characters, so two words are equal iff spelling and case are;   *)
(* matches that start or end inside a word are not modelled.               *)
(***************************************************************************)
Phrase(ws, c) == [i \in 1..Len(ws) |-> [w |-> ws[i], c |-> c]]

BANNED_PHRASES ==
    {<<"our", "lending">>, <<"we", "offer", "loans">>, <<"we", "fund">>,
     <<"our", "rates">>, <<"we", "approve">>, <<"our", "financing">>,
     <<"we", "provide", "financing">>, <<"our", "loan", "products">>,
     <<"we", "lend">>, <<"get", "approved", "by", "us">>,
     <<"our", "underwriting">>, <<"we", "finance">>, <<"our", "loans">>}

\* text.lower() contains the phrase
ContainsLower(text, phrase) ==
    \E i \in 1..Len(text) :
        /\ i + Len(phrase) - 1 <= Len(text)
        /\ \A k \in 1..Len(phrase) : text[i + k - 1].w = phrase[k]

\* the list of violations of check_brand_compliance(text)
BrandViolations(text) ==
    IF text = <<>> THEN {} ELSE {phrase \in BANNED_PHRASES : ContainsLower(text, phrase)}

\* is_compliant of check_brand_compliance(text)
check_brand_compliance(text) == BrandViolations(text) = {}

replacements ==
    << <<<<"our", "lending">>, <<"lending", "partners", "in", "our", "network">>>>,
       <<<<"our", "financing">>, <<"financing", "options", "through", "our", "partners">>>>,
       <<<<"we", "offer", "loans">>, <<"our", "lending", "partners", "offer">>>>,
       <<<<"we", "fund">>, <<"our", "lending", "partners", "fund">>>>,
       <<<<"our", "rates">>, <<"rates", "from", "our", "lending", "partners">>>>,
       <<<<"we", "approve">>, <<"our", "lending", "partners", "approve">>>>,
       <<<<"we", "lend">>, <<"our", "lending", "partners", "provide">>>>,
       <<<<"our", "loan", "products">>, <<"loan", "products", "from", "our", "partners">>>>,
       <<<<"we", "provide", "financing">>, <<"our", "partners", "provide", "financing">>>>,
       <<<<"our", "underwriting">>, <<"underwriting", "by", "our", "lending", "partners">>>>,
       <<<<"we", "finance">>, <<"our", "lending", "partners", "finance">>>>,
       <<<<"our", "loans">>, <<"loans", "from", "our", "lending", "partners">>>>,
       <<<<"get", "approved", "by", "us">>,
         <<"get", "approved", "by", "our", "lending", "partners">>>> >>

MatchAt(text, i, old) ==
    /\ i + Len(old) - 1 <= Len(text)
    /\ \A k \in 1..Len(old) : text[i + k - 1] = old[k]

RECURSIVE ReplaceFrom(_, _, _, _)
ReplaceFrom(text, i, old, new) ==
    IF i > Len(text) THEN <<>>
    ELSE IF MatchAt(text, i, old) THEN new \o ReplaceFrom(text, i + Len(old), old, new)
    ELSE <<text[i]>> \o ReplaceFrom(text, i + 1, old, new)

\* text.replace(old, new): every non-overlapping occurrence, left to right
str_replace(text, old, new) == ReplaceFrom(text, 1, old, new)

\* the loop of sanitize_brand_content from replacement k on
RECURSIVE ApplyReplacements(_, _)
ApplyReplacements(text, k) ==
    IF k > Len(replacements) THEN text
    ELSE Then(str_replace(text, Phrase(replacements[k][1], "lower"),
                                Phrase(replacements[k][2], "lower")), LAMBDA t1 :
         Then(str_replace(t1, Phrase(replacements[k][1], "title"),
                              Phrase(replacements[k][2], "title")), LAMBDA t2 :
         ApplyReplacements(t2, k + 1)))

sanitize_brand_content(text) ==
    IF text = <<>> THEN text ELSE ApplyReplacements(text, 1)

TextWords == {"our", "lending", "financing", "we", "fund"}

TextCases == {"lower", "title", "upper"}

TextTokens == [w : TextWords, c : TextCases]

SanitizeInputs == UNION {[1..n -> TextTokens] : n \in 0..MaxTextLen}

InitSanitize ==
    /\ kwA \in SanitizeInputs
    /\ kwB = NULL
    /\ opc = "sanitize"
    /\ nodes = <<>> /\ etypes = NoEtypes /\ nodesB = <<>> /\ etypesB = NoEtypes
    /\ last = NoOp
    /\ nFailed = 0
    /\ breaker = CircuitBreaker
    /\ out = NoOut
    /\ publishing_enabled = TRUE

\* sanitize_brand_content(text) -> text
RunSanitize ==
    /\ opc = "sanitize"
    /\ kwB' = sanitize_brand_content(kwA)
    /\ opc' = "sanitize_done"
    /\ UNCHANGED <<nodes, etypes, last, nFailed, kwA, nodesB, etypesB, breaker, out,
                   publishing_enabled>>

NextSanitize == RunSanitize

SpecSanitize == InitSanitize /\ [][NextSanitize]_vars

(***************************************************************************)
(* Link injection into one document                                        *)
(*                                                                         *)
(* The candidate links are numbered 1..links in list order.  A document is *)
(* [present, matching]: the linkable fields it holds as strings, and for   *)
(* each the candidates whose turn finds a usable anchor (text and url set, *)
(* a variation of 4 or more characters occurring un-linked in the field).  *)
(***************************************************************************)
linkable_fields == <<"main_content", "intro", "features", "how_it_works">>

max_links_per_field == 2

MaxLinksInBody == 5

RelatedLinksShown == 6

\* the two breaks at the head of the loop over the candidates
LinkLoopStops_per_field_only(field_links, links_injected) ==
    field_links >= max_links_per_field

LinkLoopStops(field_links, links_injected) ==
    \/ field_links >= max_links_per_field
    \/ links_injected >= MaxLinksInBody

\* the loop over the candidates for one field, from candidate k on
RECURSIVE LinkLoop(_, _, _, _, _)
LinkLoop(matching, links, k, field_links, links_injected) ==
    IF k > links \/ LinkLoopStops(field_links, links_injected)
    THEN [field_links |-> field_links, links_injected |-> links_injected]
    ELSE IF k \in matching
    THEN LinkLoop(matching, links, k + 1, field_links + 1, links_injected + 1)
    ELSE LinkLoop(matching, links, k + 1, field_links, links_injected)

\* the loop over linkable_fields from field i on; injected = anchors
\* substituted into each field so far
RECURSIVE FieldLoop(_, _, _, _, _)
FieldLoop(content, links, i, links_injected, injected) ==
    IF i > Len(linkable_fields)
    THEN [injected |-> injected, links_injected |-> links_injected]
    ELSE IF linkable_fields[i] \notin content.present
    THEN FieldLoop(content, links, i + 1, links_injected, injected)
    ELSE Then(LinkLoop(content.matching[linkable_fields[i]], links, 1, 0, links_injected),
              LAMBDA r :
         FieldLoop(content, links, i + 1, r.links_injected,
                   [injected EXCEPT ![linkable_fields[i]] = r.field_links]))

\* number of anchors in generate_related_links_html(related_links)
generate_related_links_html(links) ==
    IF links > RelatedLinksShown THEN RelatedLinksShown ELSE links

NoInjection == [f \in {linkable_fields[i] : i \in 1..Len(linkable_fields)} |-> 0]

\* returns injected (anchors substituted per field) and related (anchors of
\* the related-links section appended to main_content)
inject_links_into_content(content, links) ==
    IF links = 0 \/ content.present = {}
    THEN [injected |-> NoInjection, links_injected |-> 0, related |-> 0]
    ELSE Then(FieldLoop(content, links, 1, 0, NoInjection), LAMBDA r :
         [injected |-> r.injected, links_injected |-> r.links_injected,
          related |-> IF "main_content" \in content.present
                      THEN generate_related_links_html(links) ELSE 0])

LinkableFields == {linkable_fields[i] : i \in 1..Len(linkable_fields)}

\* candidates that can occur in a field: one more than the per-field cap
MatchingLinks == 1..(max_links_per_field + 1)

\* the document and the candidate list of one invocation
InjectInput(links, present, m) ==
    [content |-> [present |-> present,
                  matching |-> [f \in LinkableFields |-> IF f \in present THEN m[f] ELSE {}]],
     links |-> links]

InitInject ==
    /\ \E links \in 0..MaxLinks, present \in SUBSET LinkableFields :
          \E m \in [present -> SUBSET (MatchingLinks \cap 1..links)] :
             kwA = InjectInput(links, present, m)
    /\ kwB = NULL
    /\ opc = "inject"
    /\ nodes = <<>> /\ etypes = NoEtypes /\ nodesB = <<>> /\ etypesB = NoEtypes
    /\ last = NoOp
    /\ nFailed = 0
    /\ breaker = CircuitBreaker
    /\ out = NoOut
    /\ publishing_enabled = TRUE

\* inject_links_into_content(content, related_links) -> content
RunInject ==
    /\ opc = "inject"
    /\ kwB' = inject_links_into_content(kwA.content, kwA.links)
    /\ opc' = "inject_done"
    /\ UNCHANGED <<nodes, etypes, last, nFailed, kwA, nodesB, etypesB, breaker, out,
                   publishing_enabled>>

NextInject == RunInject

SpecInject == InitInject /\ [][NextInject]_vars

(***************************************************************************)
(* Link injection on the text of a document, run twice                     *)
(*                                                                         *)
(* A text is a sequence of atoms: lower-case words of 4 or more letters,   *)
(* the space, "/" and "-" of a URL, and the pieces of markup the function  *)
(* writes.  The regular expression of inject_links_into_content is matched *)
(* atom by atom; it ignores case, so the texts are kept in lower case.     *)
(***************************************************************************)
SP == " "

A_OPEN == "<a href=\""

A_MID == "\">"

A_CLOSE == "</a>"

\* a candidate link: anchor text and URL /equipment/<url_slug>/
RelatedLink(text, slug) ==
    [text |-> text, url |-> <<"/", "equipment", "/">> \o slug \o <<"/">>]

\* the parent hub ("Excavator", slug excavator) and a sibling spoke
HubLink == RelatedLink(<<"excavator">>, <<"excavator">>)

SiblingLink ==
    RelatedLink(<<"excavator", SP, "financing">>, <<"excavator", "-", "financing">>)

\* the anchor-text variations in the order they are tried; <<>> = None
Variations(anchor_text) ==
    <<anchor_text,
      anchor_text,
      str_replace(anchor_text, <<SP, "financing">>, <<>>),
      IF \E i \in 1..Len(anchor_text) : anchor_text[i] = SP THEN <<anchor_text[1]>> ELSE <<>>>>

\* the pattern matches at atom i: the variation, not preceded by </a> or
\* href=" and not followed by </a> or ">
PatternAt(text, i, variation) ==
    /\ MatchAt(text, i, variation)
    /\ i > 1 => text[i - 1] \notin {A_CLOSE, A_OPEN}
    /\ i + Len(variation) <= Len(text) => text[i + Len(variation)] \notin {A_CLOSE, A_MID}

\* pattern.search(field_content): position of the leftmost match, 0 if none
PatternSearch(text, variation) ==
    IF \E i \in 1..Len(text) : PatternAt(text, i, variation)
    THEN Min({i \in 1..Len(text) : PatternAt(text, i, variation)})
    ELSE 0

\* pattern.sub(replacement, field_content, count=1) with the match at i
PatternSub(text, i, variation, url) ==
    SubSeq(text, 1, i - 1)
      \o <<A_OPEN>> \o url \o <<A_MID>> \o variation \o <<A_CLOSE>>
      \o SubSeq(text, i + Len(variation), Len(text))

\* the loop over the variations of one link from variation v on
RECURSIVE TryVariations(_, _, _)
TryVariations(text, link, v) ==
    IF v > 4 THEN [found |-> FALSE, text |-> text]
    ELSE Then(Variations(link.text)[v], LAMBDA variation :
         IF variation = <<>> THEN TryVariations(text, link, v + 1)
         ELSE Then(PatternSearch(text, variation), LAMBDA i :
              IF i = 0 THEN TryVariations(text, link, v + 1)
              ELSE [found |-> TRUE, text |-> PatternSub(text, i, variation, link.url)]))

\* the loop over the candidates for one field from candidate k on
RECURSIVE TextLinkLoop(_, _, _, _, _)
TextLinkLoop(text, related_links, k, field_links, links_injected) ==
    IF k > Len(related_links) \/ LinkLoopStops(field_links, links_injected)
    THEN [text |-> text, links_injected |-> links_injected]
    ELSE Then(TryVariations(text, related_links[k], 1), LAMBDA r :
         IF r.found
         THEN TextLinkLoop(r.text, related_links, k + 1, field_links + 1, links_injected + 1)
         ELSE TextLinkLoop(text, related_links, k + 1, field_links, links_injected))

\* the loop over linkable_fields from field i on
RECURSIVE TextFieldLoop(_, _, _, _)
TextFieldLoop(content, related_links, i, links_injected) ==
    IF i > Len(linkable_fields) THEN content
    ELSE IF linkable_fields[i] \notin DOMAIN content
    THEN TextFieldLoop(content, related_links, i + 1, links_injected)
    ELSE Then(TextLinkLoop(content[linkable_fields[i]], related_links, 1, 0, links_injected),
              LAMBDA r :
         TextFieldLoop([content EXCEPT ![linkable_fields[i]] = r.text], related_links,
                       i + 1, r.links_injected))

\* the <li> items of generate_related_links_html from link k on
RECURSIVE RelatedItems(_, _)
RelatedItems(related_links, k) ==
    IF k > Len(related_links) \/ k > RelatedLinksShown THEN <<>>
    ELSE <<"<li>", A_OPEN>> \o related_links[k].url \o <<A_MID, "icon ">>
           \o related_links[k].text \o <<A_CLOSE, "</li>">>
           \o RelatedItems(related_links, k + 1)

RelatedLinksHtml(related_links) ==
    IF related_links = <<>> THEN <<>>
    ELSE <<"<div class=\"related-links\"><h3>Related Resources</h3><ul>">>
           \o RelatedItems(related_links, 1) \o <<"</ul></div>">>

\* inject_links_into_content on texts
InjectLinksText(content, related_links) ==
    IF related_links = <<>> \/ DOMAIN content = {} THEN content
    ELSE Then(TextFieldLoop(content, related_links, 1, 0), LAMBDA c :
         IF "main_content" \in DOMAIN c
         THEN [c EXCEPT !["main_content"] =
                  c["main_content"] \o <<"\n\n">> \o RelatedLinksHtml(related_links)]
         ELSE c)

\* generate_internal_links on the stored document, the candidates read from
\* the registry; returns the document it stores
InterlinkText(content, related_links) ==
    IF DOMAIN content # {} /\ related_links # <<>>
    THEN InjectLinksText(content, related_links)
    ELSE content

BodyAtoms == {"excavator", SP, "financing", "today"}

BodyTexts == UNION {[1..n -> BodyAtoms] : n \in 0..MaxBodyLen}

CandidateLists == {<<>>, <<HubLink>>, <<SiblingLink>>, <<HubLink, SiblingLink>>}

InitRelink ==
    /\ \E body \in BodyTexts, related_links \in CandidateLists, intro \in BOOLEAN :
          /\ kwA = related_links
          /\ kwB = IF intro
                   THEN [f \in {"main_content", "intro"} |-> body]
                   ELSE [f \in {"main_content"} |-> body]
    /\ last = NoOp
    /\ opc = 0
    /\ nodes = <<>> /\ etypes = NoEtypes /\ nodesB = <<>> /\ etypesB = NoEtypes
    /\ nFailed = 0
    /\ breaker = CircuitBreaker
    /\ out = NoOut
    /\ publishing_enabled = TRUE

\* generate_internal_links(node_id); opc counts the runs, last is the
\* document before the run
Interlink ==
    /\ opc \in {0, 1}
    /\ last' = kwB
    /\ kwB' = InterlinkText(kwB, kwA)
    /\ opc' = opc + 1
    /\ UNCHANGED <<nodes, etypes, nFailed, kwA, nodesB, etypesB, breaker, out,
                   publishing_enabled>>

NextRelink == Interlink

SpecRelink == InitRelink /\ [][NextRelink]_vars

(***************************************************************************)
(* Content pipeline and publisher on the pages of one complete cluster     *)
(***************************************************************************)
\* the columns word_count and content_version of a row that never had
\* content hold NULL or the column default 0
ColumnDefaults == {NullInt, 0}

WithColumnDefault(reg, d) ==
    [i \in DOMAIN reg |-> [reg[i] EXCEPT !.word_count = d, !.content_version = d]]

\* the page the pipeline is run on: the first spoke of the cluster
ContentNodes == {2}

InitContent ==
    /\ \E r \in {decide_and_queue(<<>>, NoEtypes, HubKeyword("excavator"), {})},
          d \in ColumnDefaults :
            nodes = WithColumnDefault(r.nodes, d) /\ etypes = r.etypes
    /\ last = NoOp
    /\ nFailed = 0
    /\ kwA = NULL /\ kwB = NULL /\ nodesB = <<>> /\ etypesB = NoEtypes
    /\ opc = "idle"
    /\ breaker = CircuitBreaker
    /\ out = NoOut
    /\ publishing_enabled = TRUE

Streak(r) ==
    IF r.requests = 0 THEN out.streak
    ELSE IF r.failed_call THEN out.streak + 1 ELSE 0

PublishFails(r) ==
    IF r.requests = 0 THEN out.fails
    ELSE IF r.success THEN 0 ELSE out.fails + 1

\* the record of a step that issues no CMS request and leaves the breaker alone
Carry(op, id) ==
    [NoOut EXCEPT !.op = op, !.id = id, !.streak = out.streak, !.fails = out.fails,
                  !.items = out.items, !.failures_before = breaker.failures]

\* the effect of a step that ends in publish_to_webflow, r its record
PublishEffect(op, id, r) ==
    /\ out.items + r.created <= MaxItems
    /\ nodes' = [nodes EXCEPT ![id] = r.row]
    /\ breaker' = r.breaker
    /\ out' = [op |-> op, id |-> id, success |-> r.success, error |-> r.error,
               requests |-> r.requests, at_request |-> r.at_request,
               streak |-> Streak(r), before |-> nodes[id].word_count,
               fails |-> PublishFails(r), failures_before |-> breaker.failures,
               method |-> r.method, items |-> out.items + r.created,
               validation_errors |-> r.validation_errors, slept |-> r.slept,
               keywords_processed |-> IF op = "autopilot" THEN 1 ELSE 0]
    /\ UNCHANGED <<etypes, last, nFailed, kwA, kwB, nodesB, etypesB, opc, publishing_enabled>>

\* CLI command 'generate <node_id>'
Generate(id, g) ==
    /\ nodes[id].content_version < MaxVersion
    /\ \E c \in {generate_content_for_node(nodes[id], g)} :
          /\ nodes' = [nodes EXCEPT ![id] = c.row]
          /\ out' = [Carry("generate", id) EXCEPT !.success = c.success,
                                                  !.before = nodes[id].word_count]
    /\ UNCHANGED <<etypes, last, nFailed, kwA, kwB, nodesB, etypesB, opc, breaker,
                   publishing_enabled>>

\* CLI command 'image <node_id>'
Image(id, ok) ==
    /\ nodes' = [nodes EXCEPT ![id] = generate_hero_image(nodes[id], ok)]
    /\ out' = [Carry("image", id) EXCEPT !.success = ok]
    /\ UNCHANGED <<etypes, last, nFailed, kwA, kwB, nodesB, etypesB, opc, breaker,
                   publishing_enabled>>

\* publish_to_webflow(node_id), CLI command 'publish <node_id>'
Publish(id, p) ==
    /\ breaker.failures < MaxBreakerFailures
    /\ \E r \in {publish_to_webflow(nodes[id], breaker, publishing_enabled, p)} :
          PublishEffect("publish", id, r)

\* process_keyword_full on a page in status discovery
ProcessPage(id, g, img, p) ==
    /\ nodes[id].status = "discovery"
    /\ nodes[id].content_version < MaxVersion
    /\ breaker.failures < MaxBreakerFailures
    /\ \E r \in {ProcessPageBody(nodes[id], breaker, publishing_enabled, g, img, p)} :
          PublishEffect("process", id, r)

\* refresh_stale_content on a published page that has become stale
RefreshPage(id, g, p) ==
    /\ nodes[id].status = "published"
    /\ nodes[id].content_version < MaxVersion
    /\ breaker.failures < MaxBreakerFailures
    /\ \E r \in {RefreshPageBody(nodes[id], breaker, publishing_enabled, g, p)} :
          PublishEffect("refresh", id, r)

\* CLI command 'reset-breaker'
ResetBreaker ==
    /\ breaker' = reset(breaker)
    /\ out' = [NoOut EXCEPT !.op = "reset", !.items = out.items,
                            !.failures_before = breaker.failures]
    /\ UNCHANGED <<nodes, etypes, last, nFailed, kwA, kwB, nodesB, etypesB, opc, publishing_enabled>>

\* CLI commands 'kill-on' and 'kill-off'
KillSwitch(enabled) ==
    /\ publishing_enabled' = enabled
    /\ out' = Carry(IF enabled THEN "kill-off" ELSE "kill-on", NoId)
    /\ UNCHANGED <<nodes, etypes, last, nFailed, kwA, kwB, nodesB, etypesB, opc, breaker>>

\* run_autopilot with one keyword in the queue, whose page is id;
\* start_read: the outcome of reading the kill switch when the run starts
RunAutopilot(id, start_read, g, img, p) ==
    /\ nodes[id].content_version < MaxVersion
    /\ breaker.failures < MaxBreakerFailures
    /\ IF ~check_kill_switch(publishing_enabled, start_read)
       THEN /\ out' = [Carry("autopilot", id) EXCEPT !.error = "Kill switch active"]
            /\ UNCHANGED <<nodes, etypes, last, nFailed, kwA, kwB, nodesB, etypesB, opc,
                           breaker, publishing_enabled>>
       ELSE IF ~can_proceed(breaker)
       THEN /\ out' = [Carry("autopilot", id) EXCEPT !.error = "Circuit breaker open"]
            /\ UNCHANGED <<nodes, etypes, last, nFailed, kwA, kwB, nodesB, etypesB, opc,
                           breaker, publishing_enabled>>
       ELSE IF nodes[id].status # "discovery"
       THEN /\ out' = [Carry("autopilot", id) EXCEPT !.keywords_processed = 1]
            /\ UNCHANGED <<nodes, etypes, last, nFailed, kwA, kwB, nodesB, etypesB, opc,
                           breaker, publishing_enabled>>
       ELSE \E r \in {ProcessPageBody(nodes[id], breaker, publishing_enabled, g, img, p)} :
               PublishEffect("autopilot", id, r)

NextContent ==
    \/ \E id \in ContentNodes, g \in GenerationInputs : Generate(id, g)
    \/ \E id \in ContentNodes, ok \in BOOLEAN : Image(id, ok)
    \/ \E id \in ContentNodes, p \in PublishInputs : Publish(id, p)
    \/ \E id \in ContentNodes, g \in GenerationInputs, img \in BOOLEAN,
          p \in PublishInputs : ProcessPage(id, g, img, p)
    \/ \E id \in ContentNodes, g \in GenerationInputs, p \in PublishInputs :
          RefreshPage(id, g, p)
    \/ ResetBreaker

SpecContent == InitContent /\ [][NextContent]_vars

(***************************************************************************)
(* Generation runs alone on one page (update_content_safe is the only      *)
(* writer of word_count and content_version)                               *)
(***************************************************************************)
NextGenerate == \E id \in ContentNodes, g \in GenerationInputs : Generate(id, g)

SpecGenerate == InitContent /\ [][NextGenerate]_vars

(***************************************************************************)
(* Generation runs on one page, with a document that passes the gate but   *)
(* is shorter than 0.9 x a stored 1000-word document                       *)
(***************************************************************************)
StoredGenerationInputs ==
    GenerationInputs \cup
    [llm : {"ok"}, content : {Document(850, 4, TRUE)}, sources : SourceCounts,
     read : {"ok", "error"}, short : {NULL}]

NextStored == \E id \in ContentNodes, g \in StoredGenerationInputs : Generate(id, g)

SpecStored == InitContent /\ [][NextStored]_vars

(***************************************************************************)
(* Generation runs on one page that scraped 0, 1 or 2 sources (0: the      *)
(* competitor intelligence is unavailable, the search found nothing, the   *)
(* SERP hash is unchanged or every scrape failed)                          *)
(***************************************************************************)
SourcesGenerationInputs ==
    {g \in GenerationInputs : g.read = "ok" /\ g.short = NULL} \cup
    [llm : {"ok", "fail"}, content : Documents, sources : {0}, read : {"ok"},
     short : {NULL}]

NextSources == \E id \in ContentNodes, g \in SourcesGenerationInputs : Generate(id, g)

SpecSources == InitContent /\ [][NextSources]_vars

(***************************************************************************)
(* Life cycle of one page: the CLI commands generate, image, links,        *)
(* publish and the refresh of a stale published page                       *)
(***************************************************************************)
\* CLI command 'links <node_id>'
Links(id) ==
    /\ nodes' = [nodes EXCEPT ![id] = generate_internal_links(nodes[id])]
    /\ out' = [Carry("links", id) EXCEPT !.success = TRUE]
    /\ UNCHANGED <<etypes, last, nFailed, kwA, kwB, nodesB, etypesB, opc, breaker,
                   publishing_enabled>>

LifecycleGenerationInputs ==
    {g \in GenerationInputs :
        /\ g.read = "ok"
        /\ g.sources = 2
        /\ g.content \in {Document(1000, 4, TRUE), Document(500, 4, TRUE)}}

NextLifecycle ==
    \/ \E id \in ContentNodes, g \in LifecycleGenerationInputs : Generate(id, g)
    \/ \E id \in ContentNodes, ok \in BOOLEAN : Image(id, ok)
    \/ \E id \in ContentNodes : Links(id)
    \/ \E id \in ContentNodes, p \in PublishInputs : Publish(id, p)
    \/ \E id \in ContentNodes, g \in LifecycleGenerationInputs, p \in PublishInputs :
          RefreshPage(id, g, p)
    \/ ResetBreaker

SpecLifecycle == InitContent /\ [][NextLifecycle]_vars

(***************************************************************************)
(* Publisher, kill switch, circuit breaker and autopilot on one page; the  *)
(* generation runs return one of three outcomes                            *)
(***************************************************************************)
PublisherGenerationInputs ==
    {g \in GenerationInputs :
        /\ g.read = "ok"
        /\ g.sources = 2
        /\ g.content \in {Document(1000, 4, TRUE), Document(500, 4, TRUE)}
        /\ g.short = NULL}

NextPublisher ==
    \/ \E id \in ContentNodes, g \in PublisherGenerationInputs : Generate(id, g)
    \/ \E id \in ContentNodes, ok \in BOOLEAN : Image(id, ok)
    \/ \E id \in ContentNodes, p \in PublishInputs : Publish(id, p)
    \/ ResetBreaker
    \/ \E enabled \in BOOLEAN : KillSwitch(enabled)
    \/ \E id \in ContentNodes, start_read \in {"ok", "error"},
          g \in PublisherGenerationInputs, img \in BOOLEAN, p \in PublishInputs :
            RunAutopilot(id, start_read, g, img, p)

SpecPublisher == InitContent /\ [][NextPublisher]_vars

(***************************************************************************)
(* run_autopilot on the intake queue, one loop iteration per step          *)
(*                                                                         *)
(* kwA is the number of unprocessed keywords the run loads; kwB is the     *)
(* state of the run: i (the next keyword), processed, errors (the length   *)
(* of stats['errors']), keywords_processed, attempted (keywords handed to  *)
(* process_keyword_full), failed (attempted keywords that met an error),   *)
(* marked (keywords whose intake row is 'processed').                      *)
(***************************************************************************)
CANARY_BATCH_SIZE == 5

\* what process_keyword_full met on one keyword: its page was published,
\* classification or the decision engine failed (one entry in errors),
\* the page's publish request failed, generation failed, or no page was due
KeywordOutcomes ==
    {"published", "classification_failed", "publish_failed", "generation_failed",
     "no_pages"}

\* the breaker after process_keyword_full
BreakerAfter(b, o) ==
    IF o = "published" THEN record_success(b)
    ELSE IF o = "publish_failed" THEN record_failure(b)
    ELSE b

\* error_rate > 0.2 after the canary batch
CanaryStops(processed, errors) ==
    processed = CANARY_BATCH_SIZE /\ 10 * errors > 2 * processed

NoRun == [i |-> 1, processed |-> 0, errors |-> 0, keywords_processed |-> 0,
          attempted |-> {}, failed |-> {}, marked |-> {}]

InitBatch ==
    /\ kwA \in 1..MaxKeywords
    /\ kwB = NoRun
    /\ opc = "start"
    /\ publishing_enabled \in BOOLEAN
    /\ breaker = CircuitBreaker
    /\ nodes = <<>> /\ etypes = NoEtypes /\ nodesB = <<>> /\ etypesB = NoEtypes
    /\ last = NoOp
    /\ nFailed = 0
    /\ out = NoOut

\* the kill-switch check and the loading of the queue
AutopilotStart(read) ==
    /\ opc = "start"
    /\ opc' = IF check_kill_switch(publishing_enabled, read) THEN "loop" ELSE "done"
    /\ UNCHANGED <<nodes, etypes, last, nFailed, kwA, kwB, nodesB, etypesB, breaker, out,
                   publishing_enabled>>

\* one iteration of the loop over keywords_to_process; o is the outcome of
\* process_keyword_full, mark_ok whether the update of the intake row succeeds
AutopilotKeyword(o, mark_ok) ==
    /\ opc = "loop"
    /\ IF kwB.i > kwA \/ ~can_proceed(breaker)
       THEN /\ opc' = "done"
            /\ UNCHANGED <<kwB, breaker>>
       ELSE \E errors \in {kwB.errors + (IF o = "classification_failed" THEN 1 ELSE 0)} :
              /\ breaker' = BreakerAfter(breaker, o)
              /\ kwB' = [i |-> kwB.i + 1,
                         processed |-> kwB.processed + 1,
                         errors |-> errors,
                         keywords_processed |-> kwB.keywords_processed + 1,
                         attempted |-> kwB.attempted \cup {kwB.i},
                         failed |-> kwB.failed \cup
                                      (IF o \in {"classification_failed", "publish_failed",
                                                 "generation_failed"}
                                       THEN {kwB.i} ELSE {}),
                         marked |-> kwB.marked \cup
                                      (IF ~CanaryStops(kwB.processed + 1, errors) /\ mark_ok
                                       THEN {kwB.i} ELSE {})]
              /\ opc' = IF CanaryStops(kwB.processed + 1, errors) THEN "done" ELSE "loop"
    /\ UNCHANGED <<nodes, etypes, last, nFailed, kwA, nodesB, etypesB, out,
                   publishing_enabled>>

NextBatch ==
    \/ \E read \in {"ok", "error"} : AutopilotStart(read)
    \/ \E o \in KeywordOutcomes, mark_ok \in BOOLEAN : AutopilotKeyword(o, mark_ok)

SpecBatch == InitBatch /\ [][NextBatch]_vars

(***************************************************************************)
(* refresh_stale_content on the pages of one cluster, one page per step    *)
(*                                                                         *)
(* kwA = [stale, limit, published]: the pages whose updated_at is older    *)
(* than the cutoff, the limit of the run, and the pages that are published *)
(* when the run starts.  kwB = [selected, done]: the list get_stale_pages  *)
(* returned and, for each page handled so far, the calls made for it.      *)
(* Rows are returned in the order of their ids.                            *)
(***************************************************************************)
RECURSIVE Ascending(_)
Ascending(S) == IF S = {} THEN <<>> ELSE <<Min(S)>> \o Ascending(S \ {Min(S)})

\* get_stale_pages selecting the stale pages of any status
get_stale_pages_any_status(reg, stale, limit, read) ==
    IF read = "error" THEN <<>>
    ELSE Then(Ascending({i \in 1..Len(reg) : i \in stale}), LAMBDA rows :
              SubSeq(rows, 1, Min({limit, Len(rows)})))

\* read = "error" when the query raises
get_stale_pages(reg, stale, limit, read) ==
    IF read = "error" THEN <<>>
    ELSE Then(Ascending({i \in 1..Len(reg) : reg[i].status = "published" /\ i \in stale}),
              LAMBDA rows : SubSeq(rows, 1, Min({limit, Len(rows)})))

\* a page that was generated, illustrated and published
PublishedRow(row) ==
    [row EXCEPT !.status = "published",
                !.generated_content = <<Document(1000, 4, TRUE)>>,
                !.word_count = 1000, !.content_version = 1,
                !.publish_gate_status = "passed",
                !.short_description = "generated",
                !.hero_image_url = "set", !.webflow_item_id = "set"]

\* the calls refresh_stale_content makes for one page, c the result of
\* generate_content_for_node
RefreshCalls(c) ==
    IF c.success
    THEN <<"generate_content_for_node", "generate_internal_links", "publish_to_webflow">>
    ELSE <<"generate_content_for_node">>

RefreshGenerationInputs ==
    {g \in GenerationInputs :
        /\ g.read = "ok" /\ g.sources = 2 /\ g.short = NULL
        /\ g.content = Document(1000, 4, TRUE)}

RefreshPublishInputs == {p \in PublishInputs : p.ks_read = "ok"}

InitRefresh ==
    /\ \E r \in {decide_and_queue(<<>>, NoEtypes, HubKeyword("excavator"), {})},
          published \in SUBSET (1..4), stale \in SUBSET (1..4), limit \in {2, 5} :
            /\ nodes = [i \in 1..Len(r.nodes) |->
                          IF i \in published
                          THEN PublishedRow(r.nodes[i])
                          ELSE [r.nodes[i] EXCEPT !.word_count = 0, !.content_version = 0]]
            /\ etypes = r.etypes
            /\ kwA = [stale |-> stale, limit |-> limit, published |-> published]
    /\ kwB = [selected |-> <<>>, done |-> <<>>]
    /\ opc = "select"
    /\ last = NoOp
    /\ nFailed = 0
    /\ nodesB = <<>> /\ etypesB = NoEtypes
    /\ breaker = CircuitBreaker
    /\ out = NoOut
    /\ publishing_enabled = TRUE

\* stale_pages = get_stale_pages(limit=limit)
RefreshSelect(read) ==
    /\ opc = "select"
    /\ \E rows \in {get_stale_pages(nodes, kwA.stale, kwA.limit, read)} :
          /\ kwB' = [kwB EXCEPT !.selected = rows]
          /\ opc' = IF rows = <<>> THEN "done" ELSE "loop"
    /\ UNCHANGED <<nodes, etypes, last, nFailed, kwA, nodesB, etypesB, breaker, out,
                   publishing_enabled>>

\* one iteration of the loop over stale_pages
RefreshNext(g, p) ==
    /\ opc = "loop"
    /\ IF Len(kwB.done) = Len(kwB.selected)
       THEN /\ opc' = "done"
            /\ UNCHANGED <<nodes, kwB, breaker>>
       ELSE \E id \in {kwB.selected[Len(kwB.done) + 1]} :
            \E c \in {generate_content_for_node(nodes[id], g)},
               r \in {RefreshPageBody(nodes[id], breaker, publishing_enabled, g, p)} :
              /\ nodes' = [nodes EXCEPT ![id] = r.row]
              /\ breaker' = r.breaker
              /\ kwB' = [kwB EXCEPT !.done =
                           Append(kwB.done, [id |-> id, calls |-> RefreshCalls(c),
                                             published |-> r.success])]
              /\ opc' = "loop"
    /\ UNCHANGED <<etypes, last, nFailed, kwA, nodesB, etypesB, out, publishing_enabled>>

NextRefresh ==
    \/ \E read \in {"ok", "error"} : RefreshSelect(read)
    \/ \E g \in RefreshGenerationInputs, p \in RefreshPublishInputs : RefreshNext(g, p)

SpecRefresh == InitRefresh /\ [][NextRefresh]_vars

(***************************************************************************)
(* The preconditions of generate_content_for_node on one row               *)
(*                                                                         *)
(* linked: whether the join on equipment_types returns the taxonomy row.   *)
(***************************************************************************)
\* GenerationErrors without the check of parent_hub_id
GenerationErrors_no_parent(row, linked) ==
    (IF ~Truthy(row.equipment_type_id) THEN {"Missing equipment_type_id"} ELSE {}) \cup
    (IF ~linked THEN {"No linked equipment_types record"} ELSE {}) \cup
    (IF ~Truthy(row.page_category) THEN {"Missing page_category (hub/spoke)"} ELSE {}) \cup
    (IF row.page_category = "spoke" /\ ~Truthy(row.spoke_type)
     THEN {"Missing spoke_type for spoke page"} ELSE {}) \cup
    (IF row.url_slug = <<>> THEN {"Missing url_slug"} ELSE {})

\* the list validation_errors of generate_content_for_node
GenerationErrors(row, linked) ==
    (IF ~Truthy(row.equipment_type_id) THEN {"Missing equipment_type_id"} ELSE {}) \cup
    (IF ~linked THEN {"No linked equipment_types record"} ELSE {}) \cup
    (IF ~Truthy(row.page_category) THEN {"Missing page_category (hub/spoke)"} ELSE {}) \cup
    (IF row.page_category = "spoke" /\ ~Truthy(row.spoke_type)
     THEN {"Missing spoke_type for spoke page"} ELSE {}) \cup
    (IF row.page_category = "spoke" /\ row.parent_hub_id = NoId
     THEN {"Missing parent_hub_id for spoke page"} ELSE {}) \cup
    (IF row.url_slug = <<>> THEN {"Missing url_slug"} ELSE {})

\* generate_content_for_node with its validation result; calls = the
\* search, scrape and reasoning-backend calls made (the search and the
\* generation call follow the validation)
GenerateChecked(row, linked, g) ==
    Then(GenerationErrors(row, linked), LAMBDA errors :
        IF errors # {}
        THEN [row |-> row, success |-> FALSE, validation_errors |-> errors, calls |-> 0]
        ELSE Then(generate_content_for_node(row, g), LAMBDA c :
             [row |-> c.row, success |-> c.success, validation_errors |-> {},
              calls |-> 2]))

PreconditionRows ==
    {[NewNode(et, cat, st, NULL, NULL, NULL, parent, slug)
         EXCEPT !.word_count = 0, !.content_version = 0] :
        et \in {NULL, "excavator"}, cat \in {NULL, "hub", "spoke"},
        st \in {NULL, "financing"}, parent \in {NoId, 1},
        slug \in {<<>>, <<"excavator">>}}

InitPrecondition ==
    /\ \E row \in PreconditionRows, linked \in BOOLEAN, g \in RefreshGenerationInputs :
          kwA = [row |-> row, linked |-> linked, g |-> g]
    /\ kwB = NULL
    /\ opc = "precondition"
    /\ nodes = <<>> /\ etypes = NoEtypes /\ nodesB = <<>> /\ etypesB = NoEtypes
    /\ last = NoOp
    /\ nFailed = 0
    /\ breaker = CircuitBreaker
    /\ out = NoOut
    /\ publishing_enabled = TRUE

\* generate_content_for_node(node_id)
RunGenerate ==
    /\ opc = "precondition"
    /\ kwB' = GenerateChecked(kwA.row, kwA.linked, kwA.g)
    /\ opc' = "precondition_done"
    /\ UNCHANGED <<nodes, etypes, last, nFailed, kwA, nodesB, etypesB, breaker, out,
                   publishing_enabled>>

NextPrecondition == RunGenerate

SpecPrecondition == InitPrecondition /\ [][NextPrecondition]_vars

(***************************************************************************)
(* Two invocations of decide_and_queue for one keyword, interleaved at     *)
(* their registry calls                                                    *)
(*                                                                         *)
(* kwA is the classification; opc[p] is the position of invocation p with  *)
(* its locals: hub = hub_node_id, k = index in default_spokes, hub_missed  *)
(* and spoke_missed = the existence check of the hub / of the keyword's    *)
(* spoke found no row.  get_or_create_equipment_type and                   *)
(* update_hub_spoke_grid are taken as one step each.                       *)
(***************************************************************************)
Procs == {1, 2}

ConcurrentKeywords ==
    {HubKeyword("excavator"), ClassifiedKeyword("excavator", "brand", "texas", NULL, NULL)}

TypeIdOf(c) == generate_url_slug(<<c.equipment_type>>)[1]

NoLocals == [pc |-> "start", hub |-> NoId, k |-> 1,
             hub_missed |-> FALSE, spoke_missed |-> FALSE]

\* the hub insert as an insert that stores nothing when the type has a hub
InsertHub_unless_exists(reg, et, name) ==
    IF HubOf(reg, et) # NoId THEN reg
    ELSE Append(reg, NewNode(et, "hub", NULL, NULL, NULL, NULL, NoId,
                             generate_url_slug(<<name>>)))

\* insert(hub_data) of create_equipment_cluster
InsertHub(reg, et, name) ==
    Append(reg, NewNode(et, "hub", NULL, NULL, NULL, NULL, NoId,
                        generate_url_slug(<<name>>)))

InitConcurrent ==
    /\ kwA \in ConcurrentKeywords
    /\ opc = [p \in Procs |-> NoLocals]
    /\ nodes = <<>>
    /\ etypes = NoEtypes
    /\ last = NoOp
    /\ nFailed = 0
    /\ kwB = NULL /\ nodesB = <<>> /\ etypesB = NoEtypes
    /\ breaker = CircuitBreaker
    /\ out = NoOut
    /\ publishing_enabled = TRUE

ConcFrame == UNCHANGED <<last, nFailed, kwA, kwB, nodesB, etypesB, breaker, out,
                         publishing_enabled>>

\* the position after iteration k of the loop over default_spokes
AfterDefault(l) ==
    IF l.k < Len(default_spokes)
    THEN [l EXCEPT !.pc = "default_check", !.k = l.k + 1]
    ELSE [l EXCEPT !.pc = "grid"]

\* equipment_type_id = get_or_create_equipment_type(...)
ConcResolveType(p) ==
    /\ opc[p].pc = "start"
    /\ etypes' = get_or_create_equipment_type(etypes, kwA.equipment_type, TRUE).etypes
    /\ opc' = [opc EXCEPT ![p].pc = "check_hub"]
    /\ UNCHANGED nodes
    /\ ConcFrame

\* hub_exists = check_page_exists(equipment_type_id, 'hub')
ConcCheckHub(p) ==
    /\ opc[p].pc = "check_hub"
    /\ opc' = [opc EXCEPT ![p].pc =
                 IF check_page_exists(nodes, TypeIdOf(kwA), "hub", NULL, NULL, NULL) # NoId
                 THEN "check_spoke" ELSE "cluster_select"]
    /\ UNCHANGED <<nodes, etypes>>
    /\ ConcFrame

\* create_equipment_cluster: hub_check
ConcClusterSelect(p) ==
    /\ opc[p].pc = "cluster_select"
    /\ \E found \in {HubOf(nodes, TypeIdOf(kwA))} :
          opc' = [opc EXCEPT ![p] =
                    IF found # NoId
                    THEN [@ EXCEPT !.pc = "default_check", !.hub = found]
                    ELSE [@ EXCEPT !.pc = "hub_insert", !.hub_missed = TRUE]]
    /\ UNCHANGED <<nodes, etypes>>
    /\ ConcFrame

\* create_equipment_cluster: insert of the hub and update of equipment_types
ConcHubInsert(p) ==
    /\ opc[p].pc = "hub_insert"
    /\ Len(nodes) < MaxNodes
    /\ \E reg \in {InsertHub(nodes, TypeIdOf(kwA), kwA.equipment_type)} :
          /\ nodes' = reg
          /\ etypes' = [etypes EXCEPT ![TypeIdOf(kwA)] = Len(reg)]
          /\ opc' = [opc EXCEPT ![p].pc = "default_check", ![p].hub = Len(reg)]
    /\ ConcFrame

\* create_equipment_cluster: spoke_exists = check_page_exists(..., spoke['type'])
ConcDefaultCheck(p) ==
    /\ opc[p].pc = "default_check"
    /\ opc' = [opc EXCEPT ![p] =
                 IF check_page_exists(nodes, TypeIdOf(kwA), default_spokes[@.k],
                                      NULL, NULL, NULL) # NoId
                 THEN AfterDefault(@)
                 ELSE [@ EXCEPT !.pc = "default_insert"]]
    /\ UNCHANGED <<nodes, etypes>>
    /\ ConcFrame

\* create_equipment_cluster: create_spoke_page of a default spoke
ConcDefaultInsert(p) ==
    /\ opc[p].pc = "default_insert"
    /\ Len(nodes) < MaxNodes
    /\ nodes' = create_spoke_page(nodes, TypeIdOf(kwA), kwA.equipment_type,
                                  default_spokes[opc[p].k], NULL, NULL, NULL,
                                  opc[p].hub, TRUE).nodes
    /\ opc' = [opc EXCEPT ![p] = AfterDefault(@)]
    /\ UNCHANGED etypes
    /\ ConcFrame

\* create_equipment_cluster: update_hub_spoke_grid, and the return of
\* decide_and_queue for a hub keyword
ConcGrid(p) ==
    /\ opc[p].pc = "grid"
    /\ nodes' = update_hub_spoke_grid(nodes, opc[p].hub, TypeIdOf(kwA))
    /\ opc' = [opc EXCEPT ![p].pc =
                 IF kwA.spoke_type = "hub" THEN "done" ELSE "check_spoke"]
    /\ UNCHANGED etypes
    /\ ConcFrame

\* decide_and_queue: spoke_exists = check_page_exists(...)
ConcCheckSpoke(p) ==
    /\ opc[p].pc = "check_spoke"
    /\ opc' = [opc EXCEPT ![p] =
                 IF kwA.spoke_type = "hub" THEN [@ EXCEPT !.pc = "done"]
                 ELSE IF check_page_exists(nodes, TypeIdOf(kwA), kwA.spoke_type,
                                           kwA.geo, kwA.modifier, NULL) # NoId
                 THEN [@ EXCEPT !.pc = "done"]
                 ELSE [@ EXCEPT !.pc = "spoke_insert", !.spoke_missed = TRUE]]
    /\ UNCHANGED <<nodes, etypes>>
    /\ ConcFrame

\* decide_and_queue: create_spoke_page of the keyword's spoke
ConcSpokeInsert(p) ==
    /\ opc[p].pc = "spoke_insert"
    /\ Len(nodes) < MaxNodes
    /\ nodes' = create_spoke_page(nodes, TypeIdOf(kwA), kwA.equipment_type,
                                  kwA.spoke_type, kwA.geo, kwA.modifier, NULL,
                                  NoId, TRUE).nodes
    /\ opc' = [opc EXCEPT ![p].pc = "done"]
    /\ UNCHANGED etypes
    /\ ConcFrame

NextConcurrent ==
    \E p \in Procs :
        \/ ConcResolveType(p)
        \/ ConcCheckHub(p)
        \/ ConcClusterSelect(p)
        \/ ConcHubInsert(p)
        \/ ConcDefaultCheck(p)
        \/ ConcDefaultInsert(p)
        \/ ConcGrid(p)
        \/ ConcCheckSpoke(p)
        \/ ConcSpokeInsert(p)

SpecConcurrent == InitConcurrent /\ [][NextConcurrent]_vars

(***************************************************************************)
(* SERP change detection in generate_content_for_node                      *)
(*                                                                         *)
(* kwA is the registry restricted to the columns primary_keyword and       *)
(* serp_signature_hash (keywords are sequences of words, a hash is the URL *)
(* list it was computed from, NoHash = no hash stored); kwB records the    *)
(* last run.                                                               *)
(***************************************************************************)
NoHash == <<>>

\* str.title() and str.lower() on the vocabulary of the model
Title(w) == IF w = "excavator" THEN "Excavator" ELSE w

KeywordLower(words) ==
    [i \in 1..Len(words) |-> IF words[i] = "Excavator" THEN "excavator"
                             ELSE Lower(words[i])]

\* hashlib.md5(json.dumps(urls)): equal exactly for equal URL lists
Md5(urls) == urls

\* the rows of a new cluster: the hub is stored under equipment_name.title(),
\* a default spoke under '<equipment_name> <type>'
SerpRegistry ==
    <<[primary_keyword |-> <<Title("excavator")>>, page_category |-> "hub",
       serp_signature_hash |-> NoHash],
      [primary_keyword |-> <<"excavator", "financing">>, page_category |-> "spoke",
       serp_signature_hash |-> NoHash]>>

get_last_serp_hash(reg, keyword) ==
    Then({i \in Ids(reg) : reg[i].primary_keyword = KeywordLower(keyword)}, LAMBDA rows :
        IF rows # {} /\ reg[Min(rows)].serp_signature_hash # NoHash
        THEN reg[Min(rows)].serp_signature_hash
        ELSE NoHash)

\* <<serp_changed, old_hash>>
check_serp_changed(reg, keyword, new_hash) ==
    Then(get_last_serp_hash(reg, keyword), LAMBDA old_hash :
        IF old_hash = NoHash THEN <<TRUE, NoHash>>
        ELSE IF old_hash # new_hash THEN <<TRUE, old_hash>>
        ELSE <<FALSE, old_hash>>)

\* saved = the update stored the row (an exception is swallowed)
save_serp_snapshot(reg, id, urls, saved) ==
    IF urls = <<>> \/ ~saved THEN reg
    ELSE [reg EXCEPT ![id].serp_signature_hash = Md5(urls)]

\* search results of a run (none: intelligence unavailable or nothing found)
SearchResults ==
    {<<>>, <<"a">>, <<"a", "b">>, <<"b", "a">>, <<"a", "b", "c", "d">>}

\* the intelligence part of generate_content_for_node(id):
\* [registry, scrapes (calls of scrape_url), new_hash]
GatherIntelligence(reg, id, urls, saved) ==
    IF urls = <<>>
    THEN [registry |-> reg, scrapes |-> 0, new_hash |-> NoHash]
    ELSE IF check_serp_changed(reg, reg[id].primary_keyword, Md5(urls))[1]
    THEN [registry |-> save_serp_snapshot(reg, id, urls, saved),
          scrapes |-> Len(SubSeq(urls, 1, Min({3, Len(urls)}))),
          new_hash |-> Md5(urls)]
    ELSE [registry |-> reg, scrapes |-> 0, new_hash |-> Md5(urls)]

InitSerp ==
    /\ kwA = SerpRegistry
    /\ kwB = [id |-> NoId, stored |-> NoHash, new_hash |-> NoHash, scrapes |-> 0]
    /\ opc = "serp"
    /\ nodes = <<>> /\ etypes = NoEtypes /\ nodesB = <<>> /\ etypesB = NoEtypes
    /\ last = NoOp
    /\ nFailed = 0
    /\ breaker = CircuitBreaker
    /\ out = NoOut
    /\ publishing_enabled = TRUE

\* a run of generate_content_for_node(id) up to the prompt
SerpRun(id, urls, saved) ==
    /\ opc = "serp"
    /\ \E r \in {GatherIntelligence(kwA, id, urls, saved)} :
          /\ kwA' = r.registry
          /\ kwB' = [id |-> id, stored |-> kwA[id].serp_signature_hash,
                     new_hash |-> r.new_hash, scrapes |-> r.scrapes]
    /\ UNCHANGED <<nodes, etypes, last, nFailed, nodesB, etypesB, opc, breaker, out,
                   publishing_enabled>>

NextSerp ==
    \E id \in Ids(SerpRegistry), urls \in SearchResults, saved \in BOOLEAN :
        SerpRun(id, urls, saved)

SpecSerp == InitSerp /\ [][NextSerp]_vars

(***************************************************************************)
(* Sitemap generation over a cluster whose pages are in any status         *)
(*                                                                         *)
(* kwB is the url elements of the sitemap, in order; node is the row an    *)
(* element was built from.                                                 *)
(***************************************************************************)
Statuses == {"discovery", "ready_to_publish", "blocked_quality", "published"}

SitemapEntry(reg, i) ==
    [node |-> i, loc |-> reg[i].url_slug,
     priority |-> IF reg[i].page_category = "hub" THEN "0.9" ELSE "0.7"]

\* generate_sitemap giving every element the priority of a spoke
generate_sitemap_flat_priority(reg) ==
    Then(SelectSeq([i \in Ids(reg) |-> i], LAMBDA i : reg[i].status = "published"),
         LAMBDA rows : [k \in 1..Len(rows) |->
                           [SitemapEntry(reg, rows[k]) EXCEPT !.priority = "0.7"]])

generate_sitemap(reg) ==
    Then(SelectSeq([i \in Ids(reg) |-> i], LAMBDA i : reg[i].status = "published"),
         LAMBDA rows : [k \in 1..Len(rows) |-> SitemapEntry(reg, rows[k])])

InitSitemap ==
    /\ \E r \in {decide_and_queue(<<>>, NoEtypes, HubKeyword("excavator"), {})},
          st \in [1..4 -> Statuses] :
            /\ nodes = [i \in 1..Len(r.nodes) |-> [r.nodes[i] EXCEPT !.status = st[i]]]
            /\ etypes = r.etypes
    /\ kwA = NULL
    /\ kwB = <<>>
    /\ opc = "sitemap"
    /\ nodesB = <<>> /\ etypesB = NoEtypes
    /\ last = NoOp
    /\ nFailed = 0
    /\ breaker = CircuitBreaker
    /\ out = NoOut
    /\ publishing_enabled = TRUE

RunSitemap ==
    /\ opc = "sitemap"
    /\ kwB' = generate_sitemap(nodes)
    /\ opc' = "sitemap_done"
    /\ UNCHANGED <<nodes, etypes, last, nFailed, kwA, nodesB, etypesB, breaker, out,
                   publishing_enabled>>

NextSitemap == RunSitemap

SpecSitemap == InitSitemap /\ [][NextSitemap]_vars

(***************************************************************************)
(* The circuit breaker under any sequence of its operations                *)
(*                                                                         *)
(* kwB is the sequence of operations called so far.                        *)
(***************************************************************************)
InitBreaker ==
    /\ breaker = CircuitBreaker
    /\ kwB = <<>>
    /\ opc = "breaker"
    /\ kwA = NULL
    /\ nodes = <<>> /\ etypes = NoEtypes /\ nodesB = <<>> /\ etypesB = NoEtypes
    /\ last = NoOp
    /\ nFailed = 0
    /\ out = NoOut
    /\ publishing_enabled = TRUE

BreakerFrame == UNCHANGED <<nodes, etypes, last, nFailed, kwA, nodesB, etypesB, opc, out,
                            publishing_enabled>>

RecordFailure ==
    /\ Len(kwB) < MaxOps
    /\ breaker.failures < MaxBreakerFailures
    /\ breaker' = record_failure(breaker)
    /\ kwB' = Append(kwB, "record_failure")
    /\ BreakerFrame

RecordSuccess ==
    /\ Len(kwB) < MaxOps
    /\ breaker' = record_success(breaker)
    /\ kwB' = Append(kwB, "record_success")
    /\ BreakerFrame

Reset ==
    /\ Len(kwB) < MaxOps
    /\ breaker' = reset(breaker)
    /\ kwB' = Append(kwB, "reset")
    /\ BreakerFrame

NextBreaker == RecordFailure \/ RecordSuccess \/ Reset

SpecBreaker == InitBreaker /\ [][NextBreaker]_vars

(***************************************************************************)
(* The safety checks on one publish and one generation call                *)
(*                                                                         *)
(* kwA = [enabled, ks_read, available, budget_read, service]; kwB holds    *)
(* what the two checks returned and the error with which                   *)
(* publish_to_webflow (on a page that is ready, breaker closed, CMS        *)
(* answering 2xx) and the generation call returned.                        *)
(***************************************************************************)
SafetyInputs ==
    [enabled : BOOLEAN, ks_read : {"ok", "error"},
     available : {"True", "False", NULL}, budget_read : {"ok", "error"},
     service : {"firecrawl", "claude", "dalle"}]

\* the guard of a call that needs budget: the error it returns (NULL: none)
BudgetGuard(service, available, read) ==
    IF check_budget(available, read) THEN NULL
    ELSE IF service = "claude" THEN "Claude budget exceeded"
    ELSE IF service = "dalle" THEN "DALL-E budget exceeded"
    ELSE "no search"

SafetyChecks(i) ==
    [kill_switch |-> check_kill_switch(i.enabled, i.ks_read),
     budget |-> check_budget(i.available, i.budget_read),
     publish_error |->
        publish_to_webflow(
            PublishedRow(NewNode("excavator", "hub", NULL, NULL, NULL, NULL, NoId,
                                 <<"excavator">>)),
            CircuitBreaker, i.enabled, [ks_read |-> i.ks_read, cms |-> "2xx"]).error,
     budget_error |-> BudgetGuard(i.service, i.available, i.budget_read)]

InitSafety ==
    /\ kwA \in SafetyInputs
    /\ kwB = NULL
    /\ opc = "safety"
    /\ nodes = <<>> /\ etypes = NoEtypes /\ nodesB = <<>> /\ etypesB = NoEtypes
    /\ last = NoOp
    /\ nFailed = 0
    /\ breaker = CircuitBreaker
    /\ out = NoOut
    /\ publishing_enabled = TRUE

RunSafetyChecks ==
    /\ opc = "safety"
    /\ kwB' = SafetyChecks(kwA)
    /\ opc' = "safety_done"
    /\ UNCHANGED <<nodes, etypes, last, nFailed, kwA, nodesB, etypesB, breaker, out,
                   publishing_enabled>>

NextSafety == RunSafetyChecks

SpecSafety == InitSafety /\ [][NextSafety]_vars

(***************************************************************************)
(* Properties of the decision engine                                       *)
(***************************************************************************)
IdentityKey(n) ==
    <<n.equipment_type_id, n.page_category, n.spoke_type, n.geo, n.modifier, n.brand_id>>

KeySet(reg) == {IdentityKey(reg[i]) : i \in Ids(reg)}

Hubs(reg, et) ==
    {i \in Ids(reg) : reg[i].equipment_type_id = et /\ reg[i].page_category = "hub"}

AtMostOneHubPerType(reg) ==
    \A i, j \in Ids(reg) :
        (/\ i # j
         /\ reg[i].page_category = "hub" /\ reg[j].page_category = "hub")
        => reg[i].equipment_type_id # reg[j].equipment_type_id

NoDuplicateSpokes(reg) ==
    \A i, j \in Ids(reg) :
        (i # j /\ reg[i].page_category = "spoke" /\ reg[j].page_category = "spoke")
        => IdentityKey(reg[i]) # IdentityKey(reg[j])

\* C1: repeating decide_and_queue with the same classification (no insert
\* having failed) adds no node, and afterwards the registry holds exactly one
\* hub of the keyword's equipment type and no two spokes with one identity key.
C1_IdempotentDecide ==
    (opc = "repeat" /\ nFailed = 0) =>
        /\ last.added = 0
        /\ Cardinality(Hubs(nodes, generate_url_slug(<<kwA.equipment_type>>)[1])) = 1
        /\ NoDuplicateSpokes(nodes)

\* C2: Invariant I1 - after any serial sequence of decide_and_queue and
\* create_equipment_cluster invocations, failed inserts included, there is at
\* most one hub per equipment type and at most one spoke per identity key.
C2_InvariantI1 ==
    AtMostOneHubPerType(nodes) /\ NoDuplicateSpokes(nodes)

\* C3: Invariant I2 - every persisted spoke has a parent_hub_id naming an
\* existing hub of its own equipment type, persisted before the spoke.
C3_InvariantI2 ==
    \A i \in Ids(nodes) :
        nodes[i].page_category = "spoke" =>
            /\ nodes[i].parent_hub_id \in 1..(i - 1)
            /\ nodes[nodes[i].parent_hub_id].page_category = "hub"
            /\ nodes[nodes[i].parent_hub_id].equipment_type_id
                   = nodes[i].equipment_type_id

\* a spoke whose stored identity is the one the classification asks for
HasSpoke(reg, c) ==
    \E i \in Ids(reg) :
        /\ reg[i].equipment_type_id = generate_url_slug(<<c.equipment_type>>)[1]
        /\ reg[i].page_category = "spoke"
        /\ reg[i].spoke_type = c.spoke_type
        /\ reg[i].geo = c.geo
        /\ reg[i].modifier = c.modifier

\* the same request with the other geo (null instead of set, set instead of null)
GeoVariantExists(reg, c) ==
    \E i \in Ids(reg) :
        /\ reg[i].equipment_type_id = generate_url_slug(<<c.equipment_type>>)[1]
        /\ reg[i].page_category = "spoke"
        /\ reg[i].spoke_type = c.spoke_type
        /\ reg[i].modifier = c.modifier
        /\ \/ reg[i].geo = NULL /\ Truthy(c.geo)
           \/ Truthy(reg[i].geo) /\ c.geo = NULL

\* C4: dedup key completeness - in a run where no insert failed, a spoke
\* request that differs from an existing spoke only in geo (one null, one
\* set) creates its own node; a request for a spoke that an identical earlier
\* request created adds nothing and reports pages_skipped = 1 and no error.
C4_DedupKeyCompleteness ==
    [][\A c \in SerialInputs :
          (nFailed = 0 /\ Decide(c, {}) /\ c.spoke_type # "hub") =>
             /\ (HasSpoke(nodes, c) =>
                    /\ nodes' = nodes
                    /\ last'.pages_skipped = 1
                    /\ ~last'.error)
             /\ (~HasSpoke(nodes, c) /\ GeoVariantExists(nodes, c) =>
                    /\ HasSpoke(nodes', c)
                    /\ last'.pages_skipped = 0)]_vars

\* C5: order independence - processing kwA then kwB ends with the same set
\* of identity keys as processing kwB then kwA from the same registry.
C5_OrderIndependence ==
    opc = "done" => KeySet(nodes) = KeySet(nodesB)

(***************************************************************************)
(* Properties of the content pipeline and the publisher                    *)
(***************************************************************************)
\* C6: a generation run whose document has fewer than 0.9 x the words of the
\* page's current word_count leaves the page's generated_content, word_count
\* and content_version as they were
C6_VersionGuardRejection ==
    [][\A id \in ContentNodes, g \in GenerationInputs :
          (/\ Generate(id, g)
           /\ g.llm = "ok"
           /\ nodes[id].word_count # NullInt
           /\ 10 * g.content.words < 9 * nodes[id].word_count)
          => /\ nodes'[id].generated_content = nodes[id].generated_content
             /\ nodes'[id].word_count = nodes[id].word_count
             /\ nodes'[id].content_version = nodes[id].content_version]_vars

\* C7: whenever a step changes a page's stored generated_content, the page's
\* content_version goes up by exactly 1 and word_count is the new document's
C7_VersionGuardAcceptance ==
    [][\A id \in ContentNodes :
          nodes'[id].generated_content # nodes[id].generated_content
          => /\ nodes[id].content_version # NullInt
             /\ nodes'[id].content_version = nodes[id].content_version + 1
             /\ nodes'[id].word_count = nodes'[id].generated_content[1].words]_vars

C9_BlockedNotPublished ==
    out.requests > 0 => out.at_request # "blocked_quality"

\* C10: once 3 consecutive CMS requests have failed the breaker is open, and
\* while it is open every step but a reset issues no CMS request, reports
\* no success and leaves it open
C10_BreakerOpens ==
    [][/\ out'.streak >= CIRCUIT_BREAKER_THRESHOLD => breaker'.is_open
       /\ (breaker.is_open /\ out'.op # "reset")
          => /\ out'.requests = 0
             /\ out'.op \in {"publish", "process", "refresh"} => out'.error # NULL
             /\ breaker'.is_open]_vars

\* a publish call was turned away by the open breaker after 3 failed requests
C10_Witness ==
    /\ out.op = "publish" /\ out.error = "Circuit breaker open"
    /\ out.requests = 0 /\ out.streak = CIRCUIT_BREAKER_THRESHOLD
    /\ breaker.is_open

\* C11: a successful publish sets the failure counter to 0, the breaker
\* opens only when 3 publish calls in a row have issued a request and failed,
\* and a publish call that fails validation leaves the breaker as it was
C11_ConsecutiveFailures ==
    [][/\ (out'.requests = 1 /\ out'.success) => breaker'.failures = 0
       /\ (breaker'.is_open /\ ~breaker.is_open)
          => out'.fails >= CIRCUIT_BREAKER_THRESHOLD
       /\ out'.error = "Publish validation failed" => breaker' = breaker]_vars

\* a publish succeeded after two failed ones and zeroed the counter
C11_Witness ==
    /\ out.op = "publish" /\ out.success /\ out.requests = 1
    /\ out.failures_before = 2
    /\ breaker.failures = 0 /\ ~breaker.is_open

\* C12: a CMS create is issued only while the page has no stored external
\* id, after a create every request is an update, and the CMS never holds
\* more than one item of the page
C12_PublishRerunnable ==
    [][/\ out'.method = "POST" => ~Truthy(nodes[out'.id].webflow_item_id)
       /\ (out.items >= 1 /\ out'.requests = 1) => out'.method = "PATCH"
       /\ out'.items <= 1]_vars

C14_KillSwitch ==
    [][~publishing_enabled
       => /\ out'.op = "publish"
             => /\ out'.error # NULL /\ out'.requests = 0
                /\ nodes' = nodes /\ breaker' = breaker
          /\ out'.op = "autopilot"
             => /\ out'.keywords_processed = 0
                /\ nodes' = nodes /\ breaker' = breaker]_vars

\* C15: a decide_and_queue that finds no hub for the equipment type and
\* reports no error leaves the hub and the default spokes financing, for-sale
\* and rental in the registry, and every other row it adds comes after them
C15_ClusterFirst ==
    [][\A c \in SerialInputs, f \in FailSets :
          LET et == generate_url_slug(<<c.equipment_type>>)[1]
          IN (Decide(c, f) /\ HubOf(nodes, et) = NoId /\ ~last'.error)
             => /\ HubOf(nodes', et) # NoId
                /\ \A k \in 1..Len(default_spokes) :
                      check_page_exists(nodes', et, default_spokes[k],
                                        NULL, NULL, NULL) # NoId
                /\ \A i \in (Len(nodes) + 1)..Len(nodes') :
                      (/\ nodes'[i].page_category = "spoke"
                       /\ i # check_page_exists(nodes', et, nodes'[i].spoke_type,
                                                NULL, NULL, NULL))
                      => /\ HubOf(nodes', et) < i
                         /\ \A k \in 1..Len(default_spokes) :
                               check_page_exists(nodes', et, default_spokes[k],
                                                 NULL, NULL, NULL) < i]_vars

\* C16: a decide_and_queue that adds a row to the registry of an equipment
\* type whose hub exists adds exactly one, a spoke whose geo, modifier and
\* brand are the classification's and whose parent is that hub
C16_AdHocSpoke ==
    [][\A c \in SerialInputs :
          LET et == generate_url_slug(<<c.equipment_type>>)[1]
          IN (/\ nFailed = 0
              /\ Decide(c, {})
              /\ HubOf(nodes, et) # NoId
              /\ Len(nodes') > Len(nodes))
             => /\ Len(nodes') = Len(nodes) + 1
                /\ nodes'[Len(nodes')].page_category = "spoke"
                /\ nodes'[Len(nodes')].spoke_type = c.spoke_type
                /\ nodes'[Len(nodes')].geo = c.geo
                /\ nodes'[Len(nodes')].modifier = c.modifier
                /\ nodes'[Len(nodes')].brand_id = c.brand
                /\ nodes'[Len(nodes')].parent_hub_id = HubOf(nodes, et)]_vars

\* C17: the gate passes exactly when the document has at least 800 words, 2
\* sources and 4 FAQs and no banned phrase, and its failure list names
\* exactly the thresholds that are violated
C17_GateVerdict ==
    opc = "gate_done"
    => /\ kwB.passed <=> (/\ kwA.content.words >= 800
                          /\ kwA.sources >= 2
                          /\ kwA.content.faq >= 4
                          /\ kwA.content.compliant)
       /\ "word_count" \in kwB.failures <=> kwA.content.words < 800
       /\ "sources" \in kwB.failures <=> kwA.sources < 2
       /\ "faqs" \in kwB.failures <=> kwA.content.faq < 4
       /\ "brand_violations" \in kwB.failures <=> ~kwA.content.compliant

\* a document with exactly 3 FAQs, otherwise good, failed naming faqs
C17_Witness ==
    /\ opc = "gate_done"
    /\ kwA.content.faq = 3 /\ kwA.content.words = 1000 /\ kwA.sources = 2
    /\ kwA.content.compliant
    /\ ~kwB.passed /\ kwB.failures = {"faqs"}

\* C18: a generation run that returns a document leaves the page with status
\* ready_to_publish when the document passes the gate, and with status
\* blocked_quality and a non-empty list of reasons when it fails
C18_GatePersisted ==
    [][\A id \in ContentNodes, g \in GenerationInputs :
          (Generate(id, g) /\ g.llm = "ok" /\ GenerationValid(nodes[id]))
          => IF /\ g.content.words >= 800 /\ g.sources >= 2
                /\ g.content.faq >= 4 /\ g.content.compliant
             THEN nodes'[id].status = "ready_to_publish"
             ELSE /\ nodes'[id].status = "blocked_quality"
                  /\ nodes'[id].publish_gate_reason # {}]_vars

\* a run whose failing document the version guard turned away left the page
\* blocked with its reasons
C18_Witness ==
    /\ out.op = "generate" /\ out.success
    /\ nodes[out.id].status = "blocked_quality"
    /\ nodes[out.id].publish_gate_reason = {"word_count"}
    /\ nodes[out.id].word_count = 1000 /\ out.before = 1000

(***************************************************************************)
(* Properties of brand sanitization and link injection                     *)
(***************************************************************************)
\* C19: the text returned by sanitize_brand_content contains none of the
\* banned phrases in any letter case: check_brand_compliance reports no
\* violation on it
C19_SanitizationComplete ==
    opc = "sanitize_done" => check_brand_compliance(kwB)

\* C20: one invocation of inject_links_into_content substitutes at most 2
\* anchors into any single field and at most 5 in total across main_content,
\* intro, features and how_it_works; the related-links section is appended
\* to main_content only and holds at most 6 anchors
C20_LinkInjectionBounds ==
    opc = "inject_done"
    => /\ \A f \in LinkableFields : kwB.injected[f] <= 2
       /\ kwB.injected["main_content"] + kwB.injected["intro"]
            + kwB.injected["features"] + kwB.injected["how_it_works"] <= 5
       /\ kwB.related <= 6

\* 7 candidates, 3 of them occurring in each of the four fields: two fields
\* got 2 anchors, the third got 1, the fourth none, and the related-links
\* section shows 6 of the 7
C20_Witness ==
    /\ opc = "inject_done"
    /\ kwA.links = 7
    /\ \A f \in LinkableFields :
          f \in kwA.content.present /\ Cardinality(kwA.content.matching[f]) = 3
    /\ kwB.injected = [NoInjection EXCEPT !["main_content"] = 2, !["intro"] = 2,
                                          !["features"] = 1]
    /\ kwB.related = 6

\* C21: a second run of generate_internal_links on a document that already
\* carries the injected anchors stores the document the first run stored
C21_RelinkIdempotent ==
    opc = 2 => kwB = last

(***************************************************************************)
(* Properties of the page life cycle                                       *)
(***************************************************************************)
IdentityFields(row) ==
    <<row.equipment_type_id, row.page_category, row.spoke_type, row.geo, row.modifier,
      row.brand_id, row.parent_hub_id, row.url_slug>>

\* C22: generation, interlinking, publish and refresh leave the identity
\* fields (equipment_type_id, page_category, spoke_type, geo, modifier,
\* brand_id, parent_hub_id, url_slug) of every node unchanged, and add or
\* remove no node
C22_IdentityUnchanged ==
    [][/\ Len(nodes') = Len(nodes)
       /\ \A i \in 1..Len(nodes) : IdentityFields(nodes'[i]) = IdentityFields(nodes[i])]_vars

\* a stale published page was refreshed: regenerated at version 2, linked
\* and published again
C22_Witness ==
    /\ out.op = "refresh" /\ out.success
    /\ nodes[out.id].status = "published"
    /\ nodes[out.id].content_version = 2
    /\ nodes[out.id].generated_content # NoContent
    /\ nodes[out.id].generated_content[1].links

\* C23: a node with status published has a webflow_item_id, and no step
\* clears a webflow_item_id
C23_PublishedHasItemId ==
    [][\A i \in 1..Len(nodes) :
          /\ nodes'[i].status = "published" => Truthy(nodes'[i].webflow_item_id)
          /\ Truthy(nodes[i].webflow_item_id) => Truthy(nodes'[i].webflow_item_id)]_vars

\* a published page was regenerated: it left status published and kept its
\* item id
C23_Witness ==
    /\ out.op = "generate" /\ out.success
    /\ nodes[out.id].status = "ready_to_publish"
    /\ Truthy(nodes[out.id].webflow_item_id)

\* C28: once a generation run has succeeded on a page its short_description
\* is non-empty, and publish validation reports a missing short description
\* only for a page no generation run has succeeded on
C28_ShortDescription ==
    /\ \A i \in 1..Len(nodes) :
          nodes[i].status # "discovery" => Truthy(nodes[i].short_description)
    /\ (out.op = "generate" /\ out.success) => Truthy(nodes[out.id].short_description)
    /\ "No short description" \in out.validation_errors
          => nodes[out.id].status = "discovery"

\* the generator omitted the short description, the template filled it in
\* and the page was published
C28_Witness ==
    /\ out.op = "publish" /\ out.success
    /\ nodes[out.id].short_description = "Get flexible financing options"

\* C29: a publish_to_webflow call that issued a CMS request performs the
\* rate-limit delay before it returns
C29_ThrottleAlways ==
    out.requests > 0 => out.slept

(***************************************************************************)
(* Properties of the autopilot batch                                       *)
(***************************************************************************)
\* C24: when run_autopilot returns, every attempted keyword that met an
\* error has an entry in the errors of the batch result, and keywords are
\* left unattempted only if the circuit breaker is open or the kill switch
\* is active
C24_BatchErrorPropagation ==
    opc = "done"
    => /\ kwB.errors >= Cardinality(kwB.failed)
       /\ kwB.keywords_processed < kwA => (breaker.is_open \/ ~publishing_enabled)

\* C25: when run_autopilot returns, every keyword it attempted is marked
\* processed in the intake table
C25_IntakeMarked ==
    opc = "done" => kwB.attempted \subseteq kwB.marked

C27_GenerationPreconditions ==
    opc = "precondition_done"
    => LET row == kwA.row
           spoke == row.page_category = "spoke"
           lacks == \/ row.equipment_type_id = NULL \/ ~kwA.linked
                    \/ row.page_category = NULL \/ row.url_slug = <<>>
                    \/ spoke /\ (row.spoke_type = NULL \/ row.parent_hub_id = NoId)
       IN  /\ lacks
              => /\ ~kwB.success
                 /\ kwB.calls = 0
                 /\ kwB.row = row
                 /\ "Missing equipment_type_id" \in kwB.validation_errors
                       <=> row.equipment_type_id = NULL
                 /\ "No linked equipment_types record" \in kwB.validation_errors
                       <=> ~kwA.linked
                 /\ "Missing page_category (hub/spoke)" \in kwB.validation_errors
                       <=> row.page_category = NULL
                 /\ "Missing url_slug" \in kwB.validation_errors
                       <=> row.url_slug = <<>>
                 /\ "Missing spoke_type for spoke page" \in kwB.validation_errors
                       <=> (spoke /\ row.spoke_type = NULL)
                 /\ "Missing parent_hub_id for spoke page" \in kwB.validation_errors
                       <=> (spoke /\ row.parent_hub_id = NoId)
           /\ ~lacks => kwB.validation_errors = {}

\* a spoke without spoke_type, parent hub and url_slug was turned away with
\* the three items listed
C27_Witness ==
    /\ opc = "precondition_done"
    /\ kwA.row.page_category = "spoke" /\ kwA.linked
    /\ kwA.g.llm = "ok"
    /\ kwB.validation_errors =
          {"Missing spoke_type for spoke page", "Missing parent_hub_id for spoke page",
           "Missing url_slug"}
    /\ kwB.calls = 0

(***************************************************************************)
(* Properties of url_slug                                                  *)
(***************************************************************************)
\* C30: after any sequence of decide_and_queue and create_equipment_cluster
\* operations no two rows of the registry share a url_slug
C30_UrlSlugUnique ==
    \A i, j \in Ids(nodes) : i # j => nodes[i].url_slug # nodes[j].url_slug

(***************************************************************************)
(* Properties of the hub's spoke index                                     *)
(***************************************************************************)
\* C31: after any sequence of decide_and_queue operations the spoke_grid
\* stored on a hub lists exactly the spokes that exist for its equipment
\* type, ad-hoc spokes added after the cluster was built included
C31_SpokeGridMaintained ==
    \A h \in Ids(nodes) :
        nodes[h].page_category = "hub"
        => /\ \A k \in 1..Len(nodes[h].spoke_grid) :
                 \E i \in Ids(nodes) :
                    /\ nodes[i].page_category = "spoke"
                    /\ nodes[i].equipment_type_id = nodes[h].equipment_type_id
                    /\ nodes[i].url_slug = nodes[h].spoke_grid[k]
           /\ \A i \in Ids(nodes) :
                 (/\ nodes[i].page_category = "spoke"
                  /\ nodes[i].equipment_type_id = nodes[h].equipment_type_id)
                 => \E k \in 1..Len(nodes[h].spoke_grid) :
                       nodes[h].spoke_grid[k] = nodes[i].url_slug

(***************************************************************************)
(* Properties of concurrent decisions                                      *)
(***************************************************************************)
PastHubInsert(l) == l.hub_missed /\ l.pc # "hub_insert"

KeywordSpokes ==
    {i \in Ids(nodes) : PageMatches(nodes[i], TypeIdOf(kwA), kwA.spoke_type,
                                    kwA.geo, kwA.modifier, NULL)}

\* C32: the check-then-insert of decide_and_queue is not safe under
\* concurrent writers - when both invocations passed the existence check of
\* the hub before either inserted, two hubs of the type are stored, and when
\* both passed the existence check of the keyword's spoke, two spokes with
\* its identity key are stored
C32_ConcurrentDuplicates ==
    /\ (\A p \in Procs : PastHubInsert(opc[p]))
       => Cardinality(Hubs(nodes, TypeIdOf(kwA))) = 2
    /\ (\A p \in Procs : opc[p].spoke_missed /\ opc[p].pc = "done")
       => Cardinality(KeywordSpokes) = 2

\* both invocations are finished and the registry holds two hubs of the type
C32_Witness ==
    /\ \A p \in Procs : opc[p].pc = "done" /\ opc[p].hub_missed
    /\ ~AtMostOneHubPerType(nodes)

\* both invocations are finished and the registry holds two spokes with the
\* identity key of the keyword
C32_WitnessSpokes ==
    /\ \A p \in Procs : opc[p].pc = "done" /\ opc[p].spoke_missed
    /\ ~NoDuplicateSpokes(nodes)

(***************************************************************************)
(* Properties of SERP change detection                                     *)
(***************************************************************************)
\* C33: when the hash of the current search-result URL list equals the
\* serp_signature_hash last stored for the node being generated (hub or
\* spoke), the run issues no scrape call
C33_UnchangedSerpNotScraped ==
    (kwB.id # NoId /\ kwB.new_hash # NoHash /\ kwB.new_hash = kwB.stored)
    => kwB.scrapes = 0

\* the same for spokes only
C33_UnchangedSerpNotScrapedSpoke ==
    (/\ kwB.id # NoId /\ kwB.new_hash # NoHash /\ kwB.new_hash = kwB.stored
     /\ kwA[kwB.id].page_category = "spoke")
    => kwB.scrapes = 0

(***************************************************************************)
(* Properties of the sitemap                                               *)
(***************************************************************************)
\* C34: generate_sitemap emits exactly one entry per published node and no
\* entry for a node in any other status; the priority of an entry is 0.9
\* for a hub and 0.7 for a spoke
C34_Sitemap ==
    opc = "sitemap_done"
    => /\ \A i \in Ids(nodes) :
             Cardinality({k \in 1..Len(kwB) : kwB[k].node = i})
                = (IF nodes[i].status = "published" THEN 1 ELSE 0)
       /\ \A k \in 1..Len(kwB) :
             /\ kwB[k].node \in Ids(nodes)
             /\ kwB[k].loc = nodes[kwB[k].node].url_slug
             /\ nodes[kwB[k].node].page_category = "hub" => kwB[k].priority = "0.9"
             /\ nodes[kwB[k].node].page_category = "spoke" => kwB[k].priority = "0.7"

\* the hub and one spoke are published, two spokes are not: two entries
C34_Witness ==
    /\ opc = "sitemap_done"
    /\ nodes[1].status = "published" /\ nodes[2].status = "blocked_quality"
    /\ nodes[3].status = "published" /\ nodes[4].status = "discovery"
    /\ Len(kwB) = 2
    /\ kwB[1].priority = "0.9" /\ kwB[2].priority = "0.7"

(***************************************************************************)
(* Properties of the circuit breaker object                                *)
(***************************************************************************)
\* C35: in every state reachable by record_failure, record_success and
\* reset, is_open is true exactly when failures >= threshold, and failures
\* is never negative
C35_BreakerConsistent ==
    /\ breaker.is_open <=> breaker.failures >= CIRCUIT_BREAKER_THRESHOLD
    /\ breaker.failures >= 0

\* the breaker opened at the third failure, a success closed it, and a
\* further failure left it closed
C35_Witness ==
    /\ kwB = <<"record_failure", "record_failure", "record_failure",
               "record_success", "record_failure">>
    /\ ~breaker.is_open
    /\ breaker.failures = 1

(***************************************************************************)
(* Properties of the stored document                                       *)
(***************************************************************************)
\* C36: after generate_content_for_node returned success, the status and
\* the gate reasons of the page are the quality-gate verdict of the document
\* stored in generated_content (with the sources of the run), also when the
\* version guard turned the new document away and the previous one was kept
C36_StatusOfStoredContent ==
    [][\A id \in ContentNodes, g \in StoredGenerationInputs :
          (Generate(id, g) /\ out'.success)
          => /\ nodes'[id].generated_content # NoContent
             /\ nodes'[id].status =
                   (IF validate_quality_gates(nodes'[id].generated_content[1], g.sources)
                    THEN "ready_to_publish" ELSE "blocked_quality")
             /\ nodes'[id].publish_gate_reason =
                   GateFailures(nodes'[id].generated_content[1], g.sources)]_vars

\* C36, the case of a page marked ready: after a successful run a page with
\* status ready_to_publish stores a document that passes the gate on word
\* count, faq count and brand compliance
C36_ReadyContentPasses ==
    (out.op = "generate" /\ out.success /\ nodes[out.id].status = "ready_to_publish")
    => /\ nodes[out.id].generated_content # NoContent
       /\ GateFailures(nodes[out.id].generated_content[1], min_sources) = {}

(***************************************************************************)
(* Properties of the link rewrite                                          *)
(***************************************************************************)
\* C37: generate_internal_links rewrites the stored document with the links
\* injected and leaves word_count, content_version and status of the page
\* as they were
C37_LinksFrame ==
    [][\A id \in ContentNodes :
          Links(id)
          => /\ nodes'[id].word_count = nodes[id].word_count
             /\ nodes'[id].content_version = nodes[id].content_version
             /\ nodes'[id].status = nodes[id].status
             /\ nodes[id].generated_content # NoContent
                => /\ nodes'[id].generated_content # NoContent
                   /\ nodes'[id].generated_content[1].links]_vars

\* the links were injected into the document of a page that is ready to
\* publish at version 1
C37_Witness ==
    /\ out.op = "links"
    /\ nodes[out.id].status = "ready_to_publish"
    /\ nodes[out.id].generated_content # NoContent
    /\ nodes[out.id].generated_content[1].links
    /\ nodes[out.id].word_count = 1000
    /\ nodes[out.id].content_version = 1

(***************************************************************************)
(* Properties of the accounting of decide_and_queue                        *)
(***************************************************************************)
\* the registry holds a spoke with the keyword's type, spoke type, geo and
\* modifier (an empty value standing for none)
OwnSpokeExists(reg, c) ==
    \E i \in Ids(reg) :
        /\ reg[i].equipment_type_id = generate_url_slug(<<c.equipment_type>>)[1]
        /\ reg[i].spoke_type = c.spoke_type
        /\ Truthy(reg[i].geo) = Truthy(c.geo)
        /\ (Truthy(c.geo) => reg[i].geo = c.geo)
        /\ Truthy(reg[i].modifier) = Truthy(c.modifier)
        /\ (Truthy(c.modifier) => reg[i].modifier = c.modifier)

C39_FewSourcesBlocked ==
    [][\A id \in ContentNodes, g \in SourcesGenerationInputs :
          (Generate(id, g) /\ g.sources < 2)
          => nodes'[id].status = "blocked_quality"]_vars

\* C39 for the runs that return success: a generation run that scraped
\* fewer than 2 sources and returns success leaves the page in status
\* blocked_quality with the reason sources listed, whatever the word count
\* and the faq count of the generated document
C39_FewSourcesBlockedOnSuccess ==
    [][\A id \in ContentNodes, g \in SourcesGenerationInputs :
          (Generate(id, g) /\ g.sources < 2 /\ out'.success)
          => /\ nodes'[id].status = "blocked_quality"
             /\ "sources" \in nodes'[id].publish_gate_reason]_vars

\* a run without any source returned a 1000-word document with 4 FAQs and
\* left the page blocked for its sources alone
C39_Witness ==
    /\ out.op = "generate" /\ out.success
    /\ nodes[out.id].status = "blocked_quality"
    /\ nodes[out.id].publish_gate_reason = {"sources"}
    /\ nodes[out.id].generated_content # NoContent
    /\ nodes[out.id].generated_content[1].words = 1000
    /\ nodes[out.id].generated_content[1].faq = 4

(***************************************************************************)
(* Properties of the safety checks                                         *)
(***************************************************************************)
\* C40: when reading the kill-switch flag or the budget raises,
\* check_kill_switch and check_budget report that the operation may
\* proceed; publishing is refused for the kill switch, and a call for its
\* budget, only when the flag or the budget was read and says no
C40_FailOpen ==
    opc = "safety_done"
    => /\ kwA.ks_read = "error" => kwB.kill_switch
       /\ kwA.budget_read = "error" => kwB.budget
       /\ ~kwB.kill_switch <=> (kwA.ks_read = "ok" /\ ~kwA.enabled)
       /\ ~kwB.budget <=> (kwA.budget_read = "ok" /\ kwA.available = "False")
       /\ kwB.publish_error = "Kill switch active"
             <=> (kwA.ks_read = "ok" /\ ~kwA.enabled)
       /\ kwB.publish_error # "Kill switch active" => kwB.publish_error = NULL
       /\ kwB.budget_error # NULL
             <=> (kwA.budget_read = "ok" /\ kwA.available = "False")

\* the flag says no and the budget is used up, but neither could be read:
\* the page was published and the generation call was allowed
C40_Witness ==
    /\ opc = "safety_done"
    /\ ~kwA.enabled /\ kwA.ks_read = "error"
    /\ kwA.available = "False" /\ kwA.budget_read = "error"
    /\ kwA.service = "claude"
    /\ kwB.kill_switch /\ kwB.budget
    /\ kwB.publish_error = NULL /\ kwB.budget_error = NULL

====
